---- MODULE Spec2Model ----
(***************************************************************************)
(* Commitment lifecycle and forecast-consumption engine of the retail SCM  *)
(* copilot: the commitments and orders tables, create_commitment,          *)
(* create_order and consume_commitment.  consume_commitment runs as a      *)
(* PostgreSQL transaction at the default READ COMMITTED level: its SELECT  *)
(* reads committed rows without locking them, each UPDATE takes the row    *)
(* lock until commit or rollback and writes absolute column values.        *)
(* Dates are fixed-format YYYY-MM-DD strings compared lexicographically;   *)
(* they are modelled as day numbers, which order the same way.             *)
(***************************************************************************)
EXTENDS Integers, Sequences, FiniteSets, TLC

\* ---------------------------------------------------------------- bounds
MaxCommitments == 2
MaxQty == 2
MaxOrderQty == 3
MaxOrders == 1
MaxRaceCommitments == 1

\* ------------------------------------------------------- program constants
Today == 0
ForwardDays == 7

Dealers == {"d1", "d2"}
\* the dealer whose visits and orders arrive; d2 only owns loaded rows
ActiveDealers == {"d1"}
Products == {"p1"}
Calls == {1, 2}
SeqCalls == {1}

forward_limit == Today + ForwardDays

\* expected_order_date values: past due, today, last forward day, first day
\* beyond the forward window
DateValues == {Today - 1, Today, forward_limit, forward_limit + 1}

\* int(params.get("quantity_promised", 0)): any integer is accepted
PromisedValues == -1 .. MaxQty

\* int(params["order_quantity"])
OrderQtyValues == 0 .. MaxOrderQty

OpenStatuses == {"PENDING", "PARTIAL"}
TerminalStatuses == {"CONVERTED", "EXPIRED", "CANCELLED"}

NoOrder == 0
NoResult == [kind |-> "none"]
ErrorResult == [kind |-> "error"]
NoArgs == [dealer_id |-> "", product_id |-> "", order_quantity |-> 0]

VARIABLES
    commitments,          \* committed rows of table commitments, by commitment_id
    orders,               \* committed rows of table orders
    pc,                   \* position of each consume_commitment invocation
    args,                 \* its (dealer_id, product_id, order_quantity)
    rows,                 \* the rows its SELECT fetched
    idx,                  \* position of its for loop in rows
    remaining_order_qty,
    consumed_details,
    writes,               \* its uncommitted UPDATEs (row locks held)
    result                \* what lambda_handler returns for it

VARIABLES
    inventory,            \* rows of table inventory
    incoming_stock,       \* rows of table incoming_stock
    inv_result,           \* the dict check_inventory returned last
    inv_fresh             \* no order was inserted since inv_result was returned

invVars == <<inventory, incoming_stock, inv_result, inv_fresh>>

VARIABLES
    health_scores,        \* rows of table dealer_health_scores of the dealer
    health_data,          \* what the dealer's orders, invoices and commitments
                          \* of the last 6 months aggregate to
    health_result         \* the dict get_dealer_health_score returned last

healthVars == <<health_scores, health_data, health_result>>

VARIABLES
    plan_dealers,         \* the rows suggest_visit_plan's queries give per dealer
    plan_args,            \* its (sales_person_id, max_dealers)
    plan_result           \* the dict it returned last

planVars == <<plan_dealers, plan_args, plan_result>>

VARIABLES
    pending_view,         \* the dict get_pending_commitments returned last
    pipeline_view,        \* the dict get_commitment_pipeline returned last
    req_result            \* outcome of the last call made with a parameter dict

viewVars == <<pending_view, pipeline_view>>

VARIABLES
    alerts,               \* committed rows of table alerts, by alert_id
    manager_chat_id,      \* telegram_chat_id of the active manager, if set
    alert_pc,             \* position of the send_manager_alert invocation
    alert_call,           \* its alert_id, its delivery outcome and tg_sent
    alert_result,         \* what send_manager_alert returned last
    delivered             \* alert_ids whose Telegram message reached the manager

alertVars == <<alerts, manager_chat_id, alert_pc, alert_call, alert_result, delivered>>

VARIABLES
    session,              \* the chat's row of table sessions, if any
    registered,           \* the chat's user is a registered sales person
    bot_pc,               \* position of each delivery of a Telegram update
    bot_update,           \* the update_id each delivery carries
    invocations,          \* agent invocations made for each update_id
    replies               \* reply messages sent to the chat for each update_id

botVars == <<session, registered, bot_pc, bot_update, invocations, replies>>

VARIABLES
    otx_pc,               \* position of each create_order transaction
    otx_number,           \* the order number it computed from COUNT(*)
    otx_result            \* what lambda_handler returns for it

otxVars == <<otx_pc, otx_number, otx_result>>

\* the alert, Telegram bot and order transaction variables
extVars == <<alertVars, botVars, otxVars>>

\* the variables outside the warehouse tables, the health score and the
\* visit plan
nonInvVars == <<healthVars, planVars, viewVars, req_result, extVars>>
nonHealthVars == <<invVars, planVars, viewVars, req_result, extVars>>
nonPlanVars == <<invVars, healthVars, viewVars, req_result, extVars>>
nonViewVars == <<invVars, healthVars, planVars, req_result, extVars>>
nonReqVars == <<inventory, incoming_stock, inv_result, healthVars, planVars, viewVars,
                extVars>>

auxVars == <<invVars, healthVars, planVars, viewVars, req_result, extVars>>

\* the variables outside the alert, the bot and the order transactions
baseVars == <<invVars, healthVars, planVars, viewVars, req_result>>

vars == <<commitments, orders, pc, args, rows, idx, remaining_order_qty,
          consumed_details, writes, result, auxVars>>

callVars == <<pc, args, rows, idx, remaining_order_qty, consumed_details,
              writes, result>>

\* ------------------------------------------------------------- helpers
Min(a, b) == IF a <= b THEN a ELSE b

CommitmentIds == 1 .. Len(commitments)

\* rows the synthetic data loader can have put in the table before any call:
\* EXPIRED and CANCELLED are set by no handler, only loaded
SeedRows ==
    { [dealer_id |-> "d1", product_id |-> "p1", quantity_promised |-> MaxQty,
       converted_quantity |-> 0, status |-> st,
       expected_order_date |-> Today - 1, converted_order_id |-> NoOrder]
      : st \in {"EXPIRED", "CANCELLED"} }
    \cup
    { [dealer_id |-> "d2", product_id |-> "p1", quantity_promised |-> MaxQty,
       converted_quantity |-> 0, status |-> "PENDING",
       expected_order_date |-> Today, converted_order_id |-> NoOrder] }

\* no consume_commitment invocation is running
CallsIdle ==
    /\ pc = [t \in Calls |-> "idle"]
    /\ args = [t \in Calls |-> NoArgs]
    /\ rows = [t \in Calls |-> <<>>]
    /\ idx = [t \in Calls |-> 1]
    /\ remaining_order_qty = [t \in Calls |-> 0]
    /\ consumed_details = [t \in Calls |-> <<>>]
    /\ writes = [t \in Calls |-> <<>>]
    /\ result = [t \in Calls |-> NoResult]

\* the warehouse tables are empty and check_inventory was never called
InvIdle ==
    /\ inventory = {}
    /\ incoming_stock = {}
    /\ inv_result = NoResult
    /\ inv_fresh = FALSE

\* the rows of a dealer without history
NoHealthData ==
    [last_order |-> <<>>, order_count_6m |-> 0,
     on_time |-> 0, invoices |-> 0, fulfilled |-> 0, commitments |-> 0]

\* the dealer has no snapshot and no history; no score was asked for
HealthIdle ==
    /\ health_scores = {}
    /\ health_data = NoHealthData
    /\ health_result = NoResult

\* suggest_visit_plan was never called
PlanIdle ==
    /\ plan_dealers = <<>>
    /\ plan_args = NoResult
    /\ plan_result = NoResult

\* no view was fetched and no call was made with a parameter dict
ViewIdle ==
    /\ pending_view = NoResult
    /\ pipeline_view = NoResult
    /\ req_result = NoResult

\* no alert was raised and the manager has no Telegram chat
AlertIdle ==
    /\ alerts = <<>>
    /\ manager_chat_id = <<>>
    /\ alert_pc = "idle"
    /\ alert_call = NoResult
    /\ alert_result = NoResult
    /\ delivered = {}

\* the chat has no session and no update was delivered
BotIdle ==
    /\ session = <<>>
    /\ registered = TRUE
    /\ bot_pc = [t \in Calls |-> "idle"]
    /\ bot_update = [t \in Calls |-> 0]
    /\ invocations = <<>>
    /\ replies = <<>>

\* no create_order transaction is running
OtxIdle ==
    /\ otx_pc = [t \in Calls |-> "idle"]
    /\ otx_number = [t \in Calls |-> 0]
    /\ otx_result = [t \in Calls |-> NoResult]

ExtIdle == AlertIdle /\ BotIdle /\ OtxIdle

NonInvIdle == HealthIdle /\ PlanIdle /\ ViewIdle /\ ExtIdle
NonHealthIdle == InvIdle /\ PlanIdle /\ ViewIdle /\ ExtIdle
NonPlanIdle == InvIdle /\ HealthIdle /\ ViewIdle /\ ExtIdle
NonViewIdle == InvIdle /\ HealthIdle /\ PlanIdle /\ req_result = NoResult /\ ExtIdle

\* everything outside the alert, the bot and the order transactions is idle
BaseIdle == InvIdle /\ HealthIdle /\ PlanIdle /\ ViewIdle

AuxIdle == InvIdle /\ NonInvIdle

Init ==
    /\ commitments \in {<<>>} \cup { <<s>> : s \in SeedRows }
    /\ orders = <<>>
    /\ CallsIdle
    /\ AuxIdle

\* ------------------------------------------------------ create_commitment
\* INSERT INTO commitments (... status, converted_quantity ...) VALUES
\* (... 'PENDING', 0 ...) with qty = int(params.get("quantity_promised", 0))
NewCommitment(dealer, product, qty, expected_date) ==
    [dealer_id |-> dealer, product_id |-> product, quantity_promised |-> qty,
     converted_quantity |-> 0, status |-> "PENDING",
     expected_order_date |-> expected_date, converted_order_id |-> NoOrder]

create_commitment(dealer, product, qty, expected_date) ==
    /\ Len(commitments) < MaxCommitments
    /\ commitments' = Append(commitments, NewCommitment(dealer, product, qty, expected_date))
    /\ UNCHANGED <<orders, callVars>>
    /\ UNCHANGED auxVars

\* ----------------------------------------------------- consume_commitment
\* SELECT ... FROM commitments WHERE dealer_id = %s AND product_id = %s
\*   AND status IN ('PENDING', 'PARTIAL')
OpenIds(dealer, product) ==
    { i \in CommitmentIds :
        /\ commitments[i].dealer_id = dealer
        /\ commitments[i].product_id = product
        /\ commitments[i].status \in OpenStatuses }

FetchRow_stale(i) ==
    [commitment_id |-> i,
     quantity_promised |-> commitments[i].quantity_promised,
     converted_quantity |-> commitments[i].converted_quantity,
     expected_order_date |-> commitments[i].expected_order_date,
     remaining_qty |-> commitments[i].quantity_promised]

\* the selected columns, with remaining_qty computed by the query
FetchRow(i) ==
    [commitment_id |-> i,
     quantity_promised |-> commitments[i].quantity_promised,
     converted_quantity |-> commitments[i].converted_quantity,
     expected_order_date |-> commitments[i].expected_order_date,
     remaining_qty |-> commitments[i].quantity_promised - commitments[i].converted_quantity]

\* ORDER BY expected_order_date ASC: every order of the selected rows that is
\* ascending by date (rows of equal date come in any order)
SortedFetches_unordered(S) ==
    { s \in [1 .. Cardinality(S) -> S] :
        \A i, j \in 1 .. Cardinality(S) : i /= j => s[i] /= s[j] }

SortedFetches(S) ==
    { s \in [1 .. Cardinality(S) -> S] :
        /\ \A i, j \in 1 .. Cardinality(S) : i /= j => s[i] /= s[j]
        /\ \A i, j \in 1 .. Cardinality(S) :
              i < j => commitments[s[i]].expected_order_date
                         <= commitments[s[j]].expected_order_date }

InTxn(t) == pc[t] = "walk"

\* a row UPDATEd by another transaction that has not ended is locked
LockedByOther(t, id) ==
    \E u \in Calls \ {t} : InTxn(u) /\ \E k \in 1 .. Len(writes[u]) : writes[u][k].commitment_id = id

\* lambda_handler dispatch, get_db(), the SELECT, and the loop's initial state
consume_begin(t, dealer, product, order_quantity) ==
    /\ pc[t] = "idle"
    /\ \E s \in SortedFetches(OpenIds(dealer, product)) :
          rows' = [rows EXCEPT ![t] = [k \in 1 .. Len(s) |-> FetchRow(s[k])]]
    /\ args' = [args EXCEPT ![t] = [dealer_id |-> dealer, product_id |-> product,
                                     order_quantity |-> order_quantity]]
    /\ idx' = [idx EXCEPT ![t] = 1]
    /\ remaining_order_qty' = [remaining_order_qty EXCEPT ![t] = order_quantity]
    /\ consumed_details' = [consumed_details EXCEPT ![t] = <<>>]
    /\ writes' = [writes EXCEPT ![t] = <<>>]
    /\ result' = [result EXCEPT ![t] = NoResult]
    /\ pc' = [pc EXCEPT ![t] = "walk"]
    /\ UNCHANGED <<commitments, orders>>
    /\ UNCHANGED auxVars

\* if exp_date <= today_str: "backward" / elif exp_date <= forward_limit:
\* "forward" / else: break ("none")
ConsumeType_strict(exp_date) ==
    IF exp_date <= Today THEN "backward"
    ELSE IF exp_date < forward_limit THEN "forward"
    ELSE "none"

ConsumeType(exp_date) ==
    IF exp_date <= Today THEN "backward"
    ELSE IF exp_date <= forward_limit THEN "forward"
    ELSE "none"

\* the for loop is over: list exhausted, or "if remaining_order_qty <= 0: break",
\* or the "else: break" of a row with remaining quantity beyond the window
LoopDone(t) ==
    IF idx[t] > Len(rows[t]) THEN TRUE
    ELSE IF remaining_order_qty[t] <= 0 THEN TRUE
    ELSE /\ rows[t][idx[t]].remaining_qty > 0
         /\ ConsumeType(rows[t][idx[t]].expected_order_date) = "none"

\* "if remaining_commit <= 0: continue"
walk_continue(t) ==
    /\ pc[t] = "walk"
    /\ idx[t] <= Len(rows[t])
    /\ remaining_order_qty[t] > 0
    /\ rows[t][idx[t]].remaining_qty <= 0
    /\ idx' = [idx EXCEPT ![t] = idx[t] + 1]
    /\ UNCHANGED <<commitments, orders, pc, args, rows, remaining_order_qty,
                   consumed_details, writes, result>>
    /\ UNCHANGED auxVars

QtyToConsume_nomin(t, c) == remaining_order_qty[t]

\* qty_to_consume = min(remaining_order_qty, remaining_commit)
QtyToConsume(t, c) == Min(remaining_order_qty[t], c.remaining_qty)

\* new_status = "CONVERTED" if new_remaining <= 0 else "PARTIAL"
NewStatus(c, new_converted) ==
    IF c.quantity_promised - new_converted <= 0 THEN "CONVERTED" ELSE "PARTIAL"

\* one loop iteration that consumes: classification, the UPDATE (which waits
\* while another transaction holds the row), the detail entry
walk_consume(t) ==
    /\ pc[t] = "walk"
    /\ idx[t] <= Len(rows[t])
    /\ remaining_order_qty[t] > 0
    /\ LET c == rows[t][idx[t]]
           qty_to_consume == QtyToConsume(t, c)
           new_converted == c.converted_quantity + qty_to_consume
           new_status == NewStatus(c, new_converted)
       IN /\ c.remaining_qty > 0
          /\ ConsumeType(c.expected_order_date) /= "none"
          /\ ~LockedByOther(t, c.commitment_id)
          /\ writes' = [writes EXCEPT ![t] = Append(@,
                 [commitment_id |-> c.commitment_id,
                  converted_quantity |-> new_converted,
                  status |-> new_status])]
          /\ consumed_details' = [consumed_details EXCEPT ![t] = Append(@,
                 [commitment_id |-> c.commitment_id,
                  expected_date |-> c.expected_order_date,
                  consumed_qty |-> qty_to_consume,
                  status |-> new_status,
                  type |-> ConsumeType(c.expected_order_date)])]
          /\ remaining_order_qty' = [remaining_order_qty EXCEPT ![t] = @ - qty_to_consume]
    /\ idx' = [idx EXCEPT ![t] = idx[t] + 1]
    /\ UNCHANGED <<commitments, orders, pc, args, rows, result>>
    /\ UNCHANGED auxVars

\* the table after the transaction's UPDATEs become visible
RECURSIVE ApplyWrites(_, _)
ApplyWrites(tbl, ws) ==
    IF ws = <<>> THEN tbl
    ELSE ApplyWrites(
           [tbl EXCEPT ![Head(ws).commitment_id] =
               [@ EXCEPT !.converted_quantity = Head(ws).converted_quantity,
                         !.status = Head(ws).status]],
           Tail(ws))

SuccessResult_nosub(t) ==
    [kind |-> "success",
     order_quantity |-> args[t].order_quantity,
     consumed_from_commitments |-> args[t].order_quantity,
     unmatched_quantity |-> remaining_order_qty[t],
     consumption_details |-> consumed_details[t],
     fully_matched |-> (remaining_order_qty[t] = 0)]

\* the dict returned after conn.commit()
SuccessResult(t) ==
    [kind |-> "success",
     order_quantity |-> args[t].order_quantity,
     consumed_from_commitments |-> args[t].order_quantity - remaining_order_qty[t],
     unmatched_quantity |-> remaining_order_qty[t],
     consumption_details |-> consumed_details[t],
     fully_matched |-> (remaining_order_qty[t] = 0)]

\* loop exit, conn.commit() and the success result
consume_commit(t) ==
    /\ pc[t] = "walk"
    /\ LoopDone(t)
    /\ commitments' = ApplyWrites(commitments, writes[t])
    /\ result' = [result EXCEPT ![t] = SuccessResult(t)]
    /\ writes' = [writes EXCEPT ![t] = <<>>]
    /\ pc' = [pc EXCEPT ![t] = "done"]
    /\ UNCHANGED <<orders, args, rows, idx, remaining_order_qty, consumed_details>>
    /\ UNCHANGED auxVars

RolledBack_applied(tbl, ws) == ApplyWrites(tbl, ws)

\* the table after conn.rollback(): uncommitted UPDATEs are discarded
RolledBack(tbl, ws) == tbl

\* any statement of the transaction raises (connection lost, deadlock victim,
\* statement timeout): except -> conn.rollback(); raise, and lambda_handler
\* turns the exception into {"error": str(e)}
consume_fail(t) ==
    /\ pc[t] = "walk"
    /\ commitments' = RolledBack(commitments, writes[t])
    /\ result' = [result EXCEPT ![t] = ErrorResult]
    /\ writes' = [writes EXCEPT ![t] = <<>>]
    /\ pc' = [pc EXCEPT ![t] = "failed"]
    /\ UNCHANGED <<orders, args, rows, idx, remaining_order_qty, consumed_details>>
    /\ UNCHANGED auxVars

\* bedrock_response(...) is returned; the invocation slot is free again
consume_return(t) ==
    /\ pc[t] \in {"done", "failed"}
    /\ pc' = [pc EXCEPT ![t] = "idle"]
    /\ args' = [args EXCEPT ![t] = NoArgs]
    /\ rows' = [rows EXCEPT ![t] = <<>>]
    /\ idx' = [idx EXCEPT ![t] = 1]
    /\ remaining_order_qty' = [remaining_order_qty EXCEPT ![t] = 0]
    /\ consumed_details' = [consumed_details EXCEPT ![t] = <<>>]
    /\ result' = [result EXCEPT ![t] = NoResult]
    /\ UNCHANGED <<commitments, orders, writes>>
    /\ UNCHANGED auxVars

\* ------------------------------------------------------------ create_order
\* INSERT INTO orders ... 'CONFIRMED'; when commitment_id is given,
\* UPDATE commitments SET converted_order_id, consumed_by_order_id,
\* conversion_date WHERE commitment_id = %s (no row: nothing updated)
LinkOrder(tbl, commitment_id, order_id) ==
    IF commitment_id \in 1 .. Len(tbl)
    THEN [tbl EXCEPT ![commitment_id] = [@ EXCEPT !.converted_order_id = order_id]]
    ELSE tbl

\* the orders row with its order_items row; order_number is COUNT(*) + 1
NewOrder_delivered(dealer, product, qty, commitment_id) ==
    [order_number |-> Len(orders) + 1, dealer_id |-> dealer,
     product_id |-> product, quantity_ordered |-> qty,
     status |-> "DELIVERED", commitment_id |-> commitment_id]

\* the orders row and its order_items row that create_order inserts
NewOrder(dealer, product, qty, commitment_id) ==
    [order_number |-> Len(orders) + 1, dealer_id |-> dealer,
     product_id |-> product, quantity_ordered |-> qty,
     status |-> "CONFIRMED", commitment_id |-> commitment_id]

create_order(dealer, product, qty, commitment_id) ==
    /\ Len(orders) < MaxOrders
    /\ product \in Products
    /\ commitment_id /= NoOrder => ~LockedByOther(0, commitment_id)
    /\ orders' = Append(orders, NewOrder(dealer, product, qty, commitment_id))
    /\ commitments' = IF commitment_id /= NoOrder
                      THEN LinkOrder(commitments, commitment_id, Len(orders) + 1)
                      ELSE commitments
    /\ inv_fresh' = FALSE
    /\ UNCHANGED <<callVars, inventory, incoming_stock, inv_result, nonInvVars>>

\* ------------------------------------------------------------ specification
\* the consumption engine with one consume_commitment invocation at a time
Next ==
    \/ \E d \in ActiveDealers, p \in Products, q \in PromisedValues, e \in DateValues :
          create_commitment(d, p, q, e)
    \/ \E t \in SeqCalls, d \in ActiveDealers, p \in Products, q \in OrderQtyValues :
          consume_begin(t, d, p, q)
    \/ \E t \in SeqCalls : walk_continue(t)
    \/ \E t \in SeqCalls : walk_consume(t)
    \/ \E t \in SeqCalls : consume_commit(t)
    \/ \E t \in SeqCalls : consume_fail(t)
    \/ \E t \in SeqCalls : consume_return(t)

Spec == Init /\ [][Next]_vars

\* the three writers of table commitments, with consume_commitment invocations
\* running concurrently (each Lambda invocation has its own connection)
NextConcurrent ==
    \/ \E d \in ActiveDealers, p \in Products, q \in PromisedValues, e \in DateValues :
          Len(commitments) < MaxRaceCommitments /\ create_commitment(d, p, q, e)
    \/ \E d \in ActiveDealers, p \in Products, cid \in 0 .. MaxRaceCommitments :
          create_order(d, p, 1, cid)
    \/ \E t \in Calls, d \in ActiveDealers, p \in Products, q \in OrderQtyValues :
          consume_begin(t, d, p, q)
    \/ \E t \in Calls : walk_continue(t)
    \/ \E t \in Calls : walk_consume(t)
    \/ \E t \in Calls : consume_commit(t)
    \/ \E t \in Calls : consume_fail(t)
    \/ \E t \in Calls : consume_return(t)

SpecConcurrent == Init /\ [][NextConcurrent]_vars

\* ------------------------------------------------------------- properties
RECURSIVE SumConsumed(_)
SumConsumed(ds) ==
    IF ds = <<>> THEN 0 ELSE Head(ds).consumed_qty + SumConsumed(Tail(ds))

Succeeded(t) == pc[t] = "done" /\ result[t].kind = "success"

\* position in the fetched list of the row with this commitment_id
RowIndex(t, id) == CHOOSE k \in 1 .. Len(rows[t]) : rows[t][k].commitment_id = id

Listed(t, id) ==
    \E k \in 1 .. Len(consumed_details[t]) : consumed_details[t][k].commitment_id = id

\* consumed_qty a call reports for a commitment (0 when it is not listed)
Reported(t, id) ==
    IF Listed(t, id)
    THEN consumed_details[t][CHOOSE k \in 1 .. Len(consumed_details[t]) :
                               consumed_details[t][k].commitment_id = id].consumed_qty
    ELSE 0

RECURSIVE SumIncrease(_, _)
SumIncrease(t, k) ==
    IF k = 0 THEN 0
    ELSE (commitments[rows[t][k].commitment_id].converted_quantity
            - rows[t][k].converted_quantity) + SumIncrease(t, k - 1)

CommitStep(t) == pc[t] = "walk" /\ pc'[t] = "done"

\* C1: every commitment always has 0 <= converted_quantity <= quantity_promised,
\* whatever quantity_promised create_commitment accepted.
C1_QuantityRange ==
    \A c \in CommitmentIds :
        /\ 0 <= commitments[c].converted_quantity
        /\ commitments[c].converted_quantity <= commitments[c].quantity_promised

\* C2: the status of every commitment agrees with its quantities: nothing
\* converted means PENDING, EXPIRED or CANCELLED; partly converted means
\* PARTIAL; fully converted means CONVERTED.
C2_StatusConsistent ==
    \A c \in CommitmentIds :
        LET r == commitments[c] IN
        /\ r.converted_quantity = 0 => r.status \in {"PENDING", "EXPIRED", "CANCELLED"}
        /\ (0 < r.converted_quantity /\ r.converted_quantity < r.quantity_promised)
              => r.status = "PARTIAL"
        /\ r.converted_quantity = r.quantity_promised => r.status = "CONVERTED"

\* C3: no unit of a commitment is credited twice: when a call commits, every
\* commitment's converted_quantity grows by exactly the consumed_qty the call
\* reports for it, and that is at most the quantity that was still remaining.
C3_NoDoubleCredit ==
    [][\A t \in Calls : CommitStep(t) =>
          \A c \in CommitmentIds :
              /\ commitments'[c].converted_quantity - commitments[c].converted_quantity
                    = Reported(t, c)
              /\ Listed(t, c) =>
                    Reported(t, c) <= commitments[c].quantity_promised
                                        - commitments[c].converted_quantity]_vars

\* C4: a successful call conserves the order quantity: consumed + unmatched =
\* order_quantity, and consumed is the sum of the consumed_qty of the details,
\* which is the total increase of converted_quantity the call wrote.
C4_Conservation ==
    \A t \in Calls : Succeeded(t) =>
        LET r == result[t] IN
        /\ r.order_quantity = args[t].order_quantity
        /\ r.consumed_from_commitments + r.unmatched_quantity = r.order_quantity
        /\ r.consumed_from_commitments = SumConsumed(r.consumption_details)
        /\ r.consumed_from_commitments = SumIncrease(t, Len(rows[t]))

C4_Witness ==
    \E t \in Calls :
        /\ Succeeded(t)
        /\ result[t].consumed_from_commitments > 0
        /\ result[t].unmatched_quantity > 0
        /\ Len(result[t].consumption_details) >= 2

\* C5: a call that fails during its walk is rolled back: the failing step
\* leaves table commitments as it was, every fetched row still has the
\* converted_quantity that was fetched and an open status, no UPDATE stays
\* pending, and the caller gets an error result.
C5_AllOrNothing ==
    [][\A t \in Calls : (pc[t] = "walk" /\ pc'[t] = "failed") =>
          /\ commitments' = commitments
          /\ writes'[t] = <<>>
          /\ result'[t].kind = "error"
          /\ \A k \in 1 .. Len(rows[t]) :
                /\ commitments'[rows[t][k].commitment_id].converted_quantity
                      = rows[t][k].converted_quantity
                /\ commitments'[rows[t][k].commitment_id].status \in OpenStatuses]_vars

C5_Witness ==
    \E t \in Calls :
        /\ pc[t] = "failed"
        /\ result[t].kind = "error"
        /\ Len(consumed_details[t]) >= 1
        /\ \A k \in 1 .. Len(consumed_details[t]) :
              /\ consumed_details[t][k].consumed_qty > 0
              /\ commitments[consumed_details[t][k].commitment_id].converted_quantity = 0
              /\ commitments[consumed_details[t][k].commitment_id].status = "PENDING"

C8_MinConsumption ==
    \A t \in Calls : Succeeded(t) =>
        LET ds == result[t].consumption_details IN
        \A k \in 1 .. Len(ds) :
            LET r == rows[t][RowIndex(t, ds[k].commitment_id)]
                before == result[t].order_quantity - SumConsumed(SubSeq(ds, 1, k - 1))
            IN /\ ds[k].consumed_qty = Min(before, r.remaining_qty)
               /\ ds[k].consumed_qty > 0
               /\ ds[k].status = IF ds[k].consumed_qty = r.remaining_qty
                                 THEN "CONVERTED" ELSE "PARTIAL"
               /\ commitments[ds[k].commitment_id].converted_quantity
                     = r.converted_quantity + ds[k].consumed_qty
               /\ commitments[ds[k].commitment_id].status = ds[k].status
               /\ k < Len(ds) => ds[k].status = "CONVERTED"
               /\ \A j \in 1 .. RowIndex(t, ds[k].commitment_id) - 1 :
                     rows[t][j].remaining_qty > 0 =>
                         commitments[rows[t][j].commitment_id].status = "CONVERTED"

C8_Witness ==
    \E t \in Calls :
        /\ Succeeded(t)
        /\ Len(result[t].consumption_details) = 2
        /\ result[t].consumption_details[1].status = "CONVERTED"
        /\ result[t].consumption_details[2].status = "PARTIAL"
        /\ result[t].unmatched_quantity = 0

\* C9: converted_quantity never decreases in any step.
C9_Monotonic ==
    [][\A c \in CommitmentIds :
          commitments'[c].converted_quantity >= commitments[c].converted_quantity]_vars

\* C10: CONVERTED, EXPIRED and CANCELLED are terminal: no step changes the
\* status or the converted_quantity of a commitment that has one of them.
C10_Terminal ==
    [][\A c \in CommitmentIds :
          commitments[c].status \in TerminalStatuses =>
              /\ commitments'[c].status = commitments[c].status
              /\ commitments'[c].converted_quantity
                    = commitments[c].converted_quantity]_vars

\* ================================================================ inventory
\* check_inventory over tables inventory, order_items JOIN orders and
\* incoming_stock.  Table orders carries one order_items row per order, as
\* create_order inserts them.
StockProducts == {"p1", "p2"}

OrderStatuses == {"DRAFT", "CONFIRMED", "PROCESSING", "SHIPPED", "DELIVERED", "CANCELLED"}

\* rows the loader can have put in table inventory (one per product and
\* warehouse); qty_reserved may exceed qty_on_hand
InventoryRows ==
    { [product_id |-> "p1", warehouse_id |-> "w1", qty_on_hand |-> MaxQty, qty_reserved |-> 0],
      [product_id |-> "p1", warehouse_id |-> "w2", qty_on_hand |-> 1, qty_reserved |-> MaxQty],
      [product_id |-> "p2", warehouse_id |-> "w1", qty_on_hand |-> MaxQty, qty_reserved |-> 1] }

\* rows the loader can have put in table incoming_stock: status RECEIVED for
\* past batches, EXPECTED for the others
IncomingRows ==
    { [incoming_id |-> 1, product_id |-> "p1", quantity |-> 1,
       status |-> "EXPECTED", expected_date |-> Today + 7],
      [incoming_id |-> 2, product_id |-> "p1", quantity |-> MaxQty,
       status |-> "EXPECTED", expected_date |-> Today + 8],
      [incoming_id |-> 3, product_id |-> "p1", quantity |-> MaxQty,
       status |-> "RECEIVED", expected_date |-> Today - 1],
      [incoming_id |-> 4, product_id |-> "p2", quantity |-> 1,
       status |-> "EXPECTED", expected_date |-> Today] }

\* a loaded order with its item, in any of the statuses the loader assigns
SeedOrder(st) ==
    [order_number |-> 1, dealer_id |-> "d1", product_id |-> "p1",
     quantity_ordered |-> 1, status |-> st, commitment_id |-> NoOrder]

RECURSIVE SumOnHand(_)
SumOnHand(S) ==
    IF S = {} THEN 0
    ELSE LET r == CHOOSE x \in S : TRUE IN r.qty_on_hand + SumOnHand(S \ {r})

RECURSIVE SumReserved(_)
SumReserved(S) ==
    IF S = {} THEN 0
    ELSE LET r == CHOOSE x \in S : TRUE IN r.qty_reserved + SumReserved(S \ {r})

RECURSIVE SumQuantity(_)
SumQuantity(S) ==
    IF S = {} THEN 0
    ELSE LET r == CHOOSE x \in S : TRUE IN r.quantity + SumQuantity(S \ {r})

\* sum of quantity_ordered over the orders with the given ids
RECURSIVE SumOrdered(_)
SumOrdered(I) ==
    IF I = {} THEN 0
    ELSE LET i == CHOOSE x \in I : TRUE IN orders[i].quantity_ordered + SumOrdered(I \ {i})

PendingStatuses_shipped == {"DRAFT", "CONFIRMED", "PROCESSING", "SHIPPED"}

\* o.status IN ('DRAFT', 'CONFIRMED', 'PROCESSING')
PendingStatuses == {"DRAFT", "CONFIRMED", "PROCESSING"}

\* SELECT COALESCE(SUM(qty_on_hand), 0), COALESCE(SUM(qty_reserved), 0)
\* FROM inventory WHERE product_id = %s
InventoryOf(product) == { r \in inventory : r.product_id = product }

\* SELECT COALESCE(SUM(oi.quantity_ordered), 0) ... WHERE oi.product_id = %s
\* AND o.status IN (...)
PendingQty(product) ==
    SumOrdered({ i \in 1 .. Len(orders) :
                   /\ orders[i].product_id = product
                   /\ orders[i].status \in PendingStatuses })

\* SELECT COALESCE(SUM(quantity), 0) FROM incoming_stock WHERE product_id = %s
\* AND status = 'EXPECTED' AND expected_date <= CURRENT_DATE + 7 days
IncomingQty(product) ==
    SumQuantity({ r \in incoming_stock :
                    /\ r.product_id = product
                    /\ r.status = "EXPECTED"
                    /\ r.expected_date <= Today + 7 })

Max(a, b) == IF a >= b THEN a ELSE b

\* the dict check_inventory returns
InventoryResult(product, quantity) ==
    LET on_hand == SumOnHand(InventoryOf(product))
        reserved == SumReserved(InventoryOf(product))
        pending == PendingQty(product)
        incoming == IncomingQty(product)
        atp == on_hand - reserved - pending
    IN [kind |-> "inventory",
        product_id |-> product,
        requested_quantity |-> quantity,
        on_hand |-> on_hand,
        reserved |-> reserved,
        pending_orders |-> pending,
        available_to_promise |-> atp,
        incoming_in_7_days |-> incoming,
        can_fulfill |-> (atp >= quantity),
        shortfall |-> IF atp < quantity THEN Max(0, quantity - atp) ELSE 0,
        can_fulfill_with_incoming |-> ((atp + incoming) >= quantity)]

InventoryAfterCheck_reserving(product, quantity) ==
    { IF r.product_id = product
      THEN [r EXCEPT !.qty_reserved = @ + quantity] ELSE r : r \in inventory }

\* table inventory after check_inventory: the function issues four SELECTs
\* and no other statement
InventoryAfterCheck(product, quantity) == inventory

\* check_inventory(params["product_id"], int(params["quantity"]))
check_inventory(product, quantity) ==
    /\ inv_result' = InventoryResult(product, quantity)
    /\ inventory' = InventoryAfterCheck(product, quantity)
    /\ inv_fresh' = TRUE
    /\ UNCHANGED <<commitments, orders, callVars, incoming_stock, nonInvVars>>

InitInventory ==
    /\ commitments = <<>>
    /\ orders \in {<<>>} \cup { <<SeedOrder(st)>> : st \in OrderStatuses }
    /\ CallsIdle
    /\ inventory \in SUBSET InventoryRows
    /\ incoming_stock \in SUBSET IncomingRows
    /\ inv_result = NoResult
    /\ inv_fresh = FALSE
    /\ NonInvIdle

\* order entry against the warehouse: availability checks and order creation
NextInventory ==
    \/ \E p \in StockProducts, q \in OrderQtyValues : check_inventory(p, q)
    \/ \E d \in ActiveDealers, p \in Products, q \in 1 .. MaxQty :
          create_order(d, p, q, NoOrder)

SpecInventory == InitInventory /\ [][NextInventory]_vars

\* a check_inventory call returned
CheckStep == inv_fresh' /\ inv_result'.kind = "inventory"

MaxOrderCount == 6
MaxHealthRows == 1

ExpectedOrders == 6

\* order_date of the dealer's most recent order in the window
LastOrderDates == {Today, Today - 11, Today - 31}

\* SELECT MAX(order_date), COUNT(*) ...; SELECT COUNT(CASE WHEN PAID on time),
\* COUNT(*) FROM invoices ...; SELECT COUNT(CASE WHEN CONVERTED), COUNT(*)
\* FROM commitments ...: MAX is NULL exactly when COUNT is 0
HealthDataValues ==
    { [last_order |-> lo, order_count_6m |-> n,
       on_time |-> ot, invoices |-> it, fulfilled |-> cf, commitments |-> ct] :
      lo \in {<<>>} \cup { <<d>> : d \in LastOrderDates },
      n \in 0 .. MaxOrderCount,
      ot \in 0 .. MaxHealthRows, it \in 0 .. MaxHealthRows,
      cf \in 0 .. MaxHealthRows, ct \in 0 .. MaxHealthRows }

HealthData ==
    { h \in HealthDataValues :
        /\ (h.last_order = <<>>) <=> (h.order_count_6m = 0)
        /\ h.on_time <= h.invoices
        /\ h.fulfilled <= h.commitments }

\* monthly snapshots written by the scoring job, with its own status scale
SnapshotRows ==
    { [calculated_date |-> 1, overall_score |-> 82, health_status |-> "EXCELLENT"],
      [calculated_date |-> 2, overall_score |-> 40, health_status |-> "AT_RISK"],
      [calculated_date |-> 3, overall_score |-> 66, health_status |-> "GOOD"] }

\* round(): to the nearest integer, a tie to the even one
RoundHalfEven(n, d) ==
    LET q == n \div d
        r == n % d
    IN IF 2 * r < d THEN q
       ELSE IF 2 * r > d THEN q + 1
       ELSE IF q % 2 = 0 THEN q ELSE q + 1

LatestSnapshot_oldest(S) ==
    CHOOSE r \in S : \A o \in S : o.calculated_date >= r.calculated_date

\* ORDER BY calculated_date DESC LIMIT 1
LatestSnapshot(S) ==
    CHOOSE r \in S : \A o \in S : o.calculated_date <= r.calculated_date

\* the dict returned when a snapshot exists
PrecomputedResult(row) ==
    [kind |-> "health", source |-> "precomputed",
     score |-> row.overall_score, status |-> row.health_status]

\* days_since = (datetime.now() - last_order_dt).days, 999 without an order
DaysSince(h) == IF h.last_order /= <<>> THEN Today - h.last_order[1] ELSE 999

\* recency = max(0, 100 - days_since * 2), 0 without an order
Recency6(h) ==
    IF h.last_order /= <<>> THEN 6 * Max(0, 100 - DaysSince(h) * 2) ELSE 0

\* frequency = min(100, (actual / expected) * 100)
Frequency6(h) == Min(600, (h.order_count_6m * 600) \div ExpectedOrders)

Payment6_zero(h) ==
    IF h.invoices > 0 THEN (h.on_time * 600) \div h.invoices ELSE 0

\* payment_score = (on_time / total) * 100, 50 without an invoice
Payment6(h) ==
    IF h.invoices > 0 THEN (h.on_time * 600) \div h.invoices ELSE 6 * 50

\* fulfill_score = (fulfilled / total) * 100, 50 without a commitment
Fulfillment6(h) ==
    IF h.commitments > 0 THEN (h.fulfilled * 600) \div h.commitments ELSE 6 * 50

\* total = sum(scores.values()) with scores[k] = component * 0.25
Total24(h) == Recency6(h) + Frequency6(h) + Payment6(h) + Fulfillment6(h)

\* if total >= 70 / elif total >= 50 / else
HealthStatus(h) ==
    IF Total24(h) >= 24 * 70 THEN "HEALTHY"
    ELSE IF Total24(h) >= 24 * 50 THEN "AT_RISK"
    ELSE "CRITICAL"

Reasons_fulfillment_first(h) ==
    (IF h.commitments > 0 /\ Fulfillment6(h) < 6 * 70
     THEN <<"Low commitment conversion">> ELSE <<>>)
    \o (IF h.last_order = <<>> THEN <<"No recent orders">>
        ELSE IF DaysSince(h) > 30 THEN <<"No order in N days">> ELSE <<>>)
    \o (IF h.order_count_6m < 3 THEN <<"Low order frequency">> ELSE <<>>)
    \o (IF h.invoices > 0 /\ Payment6(h) < 6 * 70 THEN <<"Payment delays">> ELSE <<>>)

\* reasons, in the order the four components are computed
Reasons(h) ==
    (IF h.last_order = <<>> THEN <<"No recent orders">>
     ELSE IF DaysSince(h) > 30 THEN <<"No order in N days">> ELSE <<>>)
    \o (IF h.order_count_6m < 3 THEN <<"Low order frequency">> ELSE <<>>)
    \o (IF h.invoices > 0 /\ Payment6(h) < 6 * 70 THEN <<"Payment delays">> ELSE <<>>)
    \o (IF h.commitments > 0 /\ Fulfillment6(h) < 6 * 70
        THEN <<"Low commitment conversion">> ELSE <<>>)

\* the dict returned by the live computation
ComputedResult(h) ==
    [kind |-> "health", source |-> "computed",
     score |-> RoundHalfEven(Total24(h), 24),
     status |-> HealthStatus(h),
     components |-> [recency |-> RoundHalfEven(Recency6(h), 6),
                     frequency |-> RoundHalfEven(Frequency6(h), 6),
                     payment |-> RoundHalfEven(Payment6(h), 6),
                     fulfillment |-> RoundHalfEven(Fulfillment6(h), 6)],
     reasons |-> SubSeq(Reasons(h), 1, Min(3, Len(Reasons(h)))),
     days_since_last_order |-> IF DaysSince(h) < 999 THEN <<DaysSince(h)>> ELSE <<>>]

\* get_dealer_health_score(params["dealer_id"]): SELECTs only
get_dealer_health_score ==
    /\ health_result' = IF health_scores /= {}
                        THEN PrecomputedResult(LatestSnapshot(health_scores))
                        ELSE ComputedResult(health_data)
    /\ UNCHANGED <<health_scores, health_data>>
    /\ UNCHANGED <<commitments, orders, callVars, nonHealthVars>>

\* writes of the other handlers that reach the dealer's aggregates
StoreEvents == {"order", "invoice", "payment", "commitment", "conversion"}

\* create_order inserts an order dated today; an invoice is issued or paid
\* on time; create_commitment inserts a commitment; consume_commitment
\* converts one
AfterEvent(h, e) ==
    IF e = "order"
    THEN [h EXCEPT !.last_order = <<Today>>, !.order_count_6m = @ + 1]
    ELSE IF e = "invoice" THEN [h EXCEPT !.invoices = @ + 1]
    ELSE IF e = "payment" THEN [h EXCEPT !.on_time = @ + 1]
    ELSE IF e = "commitment" THEN [h EXCEPT !.commitments = @ + 1]
    ELSE [h EXCEPT !.fulfilled = @ + 1]

store_change(e) ==
    /\ AfterEvent(health_data, e) \in HealthData
    /\ health_data' = AfterEvent(health_data, e)
    /\ UNCHANGED <<health_scores, health_result>>
    /\ UNCHANGED <<commitments, orders, callVars, nonHealthVars>>

InitHealth ==
    /\ commitments = <<>>
    /\ orders = <<>>
    /\ CallsIdle
    /\ NonHealthIdle
    /\ health_scores \in SUBSET SnapshotRows
    /\ health_data \in HealthData
    /\ health_result = NoResult

NextHealth ==
    \/ get_dealer_health_score
    \/ \E e \in StoreEvents : store_change(e)

SpecHealth == InitHealth /\ [][NextHealth]_vars

\* get_dealer_health_score returned a dict
HealthStep == health_result' /= health_result

\* C13: without a snapshot and with zero orders, invoices and commitments in
\* the window the live computation gives recency 0, frequency 0, payment 50,
\* fulfillment 50, overall score 25 and status CRITICAL; in general the score
\* is the sum of the four components weighted 0.25 each (returned rounded to
\* an integer, so within 0.5 of that sum).
C13_NoHistoryScore ==
    [][(HealthStep /\ health_scores = {}) =>
         LET h == health_data
             r == health_result'
             weighted24 == Recency6(h) + Frequency6(h) + Payment6(h) + Fulfillment6(h)
         IN /\ r.source = "computed"
            /\ 24 * r.score - weighted24 <= 12
            /\ weighted24 - 24 * r.score <= 12
            /\ (h.order_count_6m = 0 /\ h.invoices = 0 /\ h.commitments = 0) =>
                  /\ r.components = [recency |-> 0, frequency |-> 0,
                                     payment |-> 50, fulfillment |-> 50]
                  /\ r.score = 25
                  /\ r.status = "CRITICAL"]_vars

\* the live computation ran for a dealer without snapshot and history
C13_Witness ==
    /\ health_scores = {}
    /\ health_data = NoHealthData
    /\ health_result.kind = "health"
    /\ health_result.source = "computed"
    /\ health_result.score = 25

\* C14: in every result of the live computation the status agrees with the
\* returned score: HEALTHY iff score >= 70, AT_RISK iff 50 <= score < 70,
\* CRITICAL iff score < 50.
C14_StatusAgreesWithScore ==
    (health_result.kind = "health" /\ health_result.source = "computed") =>
        /\ (health_result.status = "HEALTHY") <=> (health_result.score >= 70)
        /\ (health_result.status = "AT_RISK") <=>
              (health_result.score >= 50 /\ health_result.score < 70)
        /\ (health_result.status = "CRITICAL") <=> (health_result.score < 50)

\* C15: when the dealer has a snapshot the call returns the score and status
\* of the row with the greatest calculated_date, whatever the current orders,
\* invoices and commitments are, and later changes of those leave that answer
\* the current one; the live computation runs only without a snapshot; the
\* call writes no row.
C15_CacheFirst ==
    /\ [][HealthStep =>
            /\ health_scores /= {} =>
                 \E row \in health_scores :
                    /\ \A o \in health_scores : o.calculated_date <= row.calculated_date
                    /\ health_result'.source = "precomputed"
                    /\ health_result'.score = row.overall_score
                    /\ health_result'.status = row.health_status
            /\ (health_result'.source = "computed") <=> (health_scores = {})
            /\ health_scores' = health_scores
            /\ health_data' = health_data
            /\ commitments' = commitments
            /\ orders' = orders]_vars
    /\ [](\A row \in health_scores :
            (/\ health_result.kind = "health"
             /\ \A o \in health_scores : o.calculated_date <= row.calculated_date)
            => /\ health_result.score = row.overall_score
               /\ health_result.status = row.health_status)

\* the latest of several snapshots was returned although the live
\* computation over the current data gives another score
C15_Witness ==
    /\ Cardinality(health_scores) >= 2
    /\ health_result.kind = "health"
    /\ health_result.source = "precomputed"
    /\ health_result.score = 66
    /\ health_data.order_count_6m = MaxOrderCount
    /\ ComputedResult(health_data).score /= health_result.score

\* the component a reason text belongs to: 1 recency, 2 frequency, 3 payment,
\* 4 fulfillment
ReasonComponent(text) ==
    IF text \in {"No recent orders", "No order in N days"} THEN 1
    ELSE IF text = "Low order frequency" THEN 2
    ELSE IF text = "Payment delays" THEN 3
    ELSE 4

\* the four conditions under which a component appends its reason
AllFourTrigger(h) ==
    /\ h.last_order = <<>> \/ Today - h.last_order[1] > 30
    /\ h.order_count_6m < 3
    /\ h.invoices > 0 /\ h.on_time * 100 < 70 * h.invoices
    /\ h.commitments > 0 /\ h.fulfilled * 100 < 70 * h.commitments

\* C24: the live computation returns at most 3 attention reasons, ordered
\* recency, frequency, payment, fulfillment (no reason of a later component
\* precedes one of an earlier component); when all four components trigger
\* the three returned are those of recency, frequency and payment.
C24_ReasonsOrderedCapped ==
    [][(HealthStep /\ health_scores = {}) =>
         LET rs == health_result'.reasons
         IN /\ Len(rs) <= 3
            /\ \A i, j \in DOMAIN rs :
                  i < j => ReasonComponent(rs[i]) < ReasonComponent(rs[j])
            /\ AllFourTrigger(health_data) =>
                  /\ Len(rs) = 3
                  /\ \A i \in DOMAIN rs : ReasonComponent(rs[i]) = i]_vars

\* the live computation ran for a dealer whose four components all trigger
C24_Witness ==
    /\ health_scores = {}
    /\ AllFourTrigger(health_data)
    /\ health_result.kind = "health"
    /\ health_result.source = "computed"
    /\ health_result.reasons =
          <<"No recent orders", "Low order frequency", "Payment delays">>

\* =============================================================== visit plan
\* suggest_visit_plan.  A row of plan_dealers is what the three queries give
\* for one dealer: the dealers row joined with its latest health snapshot
\* (NULL columns are empty sequences), the overdue aggregate of its invoices
\* and the count of its commitments expiring within 3 days.  Amounts are
\* multiples of 1000 rupees; the float priority_score p is held exactly as
\* the integer 200*p.
MaxPlanDealers == 3

SalesPersons == {"sp1", "sp2"}

DealerRow(id, sp, st, amount, overdue, dlo, lod, dlv, lvd, expiring, score) ==
    [dealer_id |-> id, sales_person_id |-> sp, status |-> st,
     overdue_amount |-> amount, days_overdue |-> overdue,
     days_since_last_order |-> dlo, last_order_date |-> lod,
     days_since_last_visit |-> dlv, last_visit_date |-> lvd,
     expiring_count |-> expiring, overall_score |-> score]

\* a rep's territory: dealers with a snapshot, one without any history, an
\* inactive dealer, a dealer of another rep, a dealer whose past-due invoice
\* is paid beyond its total_amount (no constraint ties amount_paid to
\* total_amount) and a dealer whose snapshot has overall_score 0
NamedRows ==
    { DealerRow("k1", "sp1", "ACTIVE", 20000, 10, <<5>>, <<Today - 5>>, <<2>>, <<Today - 2>>, 0, <<80>>),
      DealerRow("k2", "sp1", "ACTIVE", 20000, 10, <<5>>, <<Today - 5>>, <<3>>, <<Today - 3>>, 0, <<80>>),
      DealerRow("k3", "sp1", "ACTIVE", 0, 34, <<40>>, <<Today - 40>>, <<19>>, <<Today - 19>>, 0, <<60>>),
      DealerRow("k4", "sp1", "ACTIVE", 0, 0, <<>>, <<>>, <<>>, <<>>, 0, <<>>),
      DealerRow("k5", "sp1", "INACTIVE", 1500000, 34, <<40>>, <<Today - 40>>, <<19>>, <<Today - 19>>, 5, <<60>>),
      DealerRow("k6", "sp2", "ACTIVE", 1500000, 34, <<40>>, <<Today - 40>>, <<19>>, <<Today - 19>>, 5, <<60>>),
      DealerRow("k7", "sp1", "ACTIVE", -50000, 1, <<0>>, <<Today>>, <<0>>, <<Today>>, 0, <<100>>),
      DealerRow("k8", "sp1", "ACTIVE", 0, 0, <<5>>, <<Today - 5>>, <<2>>, <<Today - 2>>, 0, <<0>>) }

\* one dealer of the rep with every combination of signal inputs
GenericRows ==
    { DealerRow("g1", "sp1", "ACTIVE", amount, overdue, dlo, lod, dlv, lvd, expiring, score) :
        amount \in {0, 20000, 1500000}, overdue \in {0, 10, 34},
        dlo \in {<<>>, <<5>>, <<40>>}, lod \in {<<>>, <<Today - 12>>},
        dlv \in {<<>>, <<2>>, <<19>>}, lvd \in {<<>>, <<Today - 12>>},
        expiring \in {0, 1, 5}, score \in {<<>>, <<60>>, <<80>>} }

\* the query returns the dealers in some order, each once
PlanTables ==
    { <<r>> : r \in GenericRows }
    \cup
    { t \in UNION { [1 .. n -> NamedRows] : n \in 0 .. MaxPlanDealers } :
        \A i, j \in DOMAIN t : i /= j => t[i] /= t[j] }

\* int(params.get("max_dealers", 5)): any integer
MaxDealersValues == -1 .. MaxPlanDealers

\* health = float(d["overall_score"] or 50)
PlanHealth(d) ==
    IF d.overall_score = <<>> THEN 50
    ELSE IF d.overall_score[1] = 0 THEN 50
    ELSE d.overall_score[1]

Dlo_zero(d) ==
    IF d.days_since_last_order /= <<>> THEN d.days_since_last_order[1]
    ELSE IF d.last_order_date /= <<>> THEN Today - d.last_order_date[1]
    ELSE 0

\* dlo: the snapshot's day count, else the days since last_order_date, else 120
Dlo(d) ==
    IF d.days_since_last_order /= <<>> THEN d.days_since_last_order[1]
    ELSE IF d.last_order_date /= <<>> THEN Today - d.last_order_date[1]
    ELSE 120

\* dlv: the snapshot's day count, else the days since last_visit_date, else 60
Dlv(d) ==
    IF d.days_since_last_visit /= <<>> THEN d.days_since_last_visit[1]
    ELSE IF d.last_visit_date /= <<>> THEN Today - d.last_visit_date[1]
    ELSE 60

\* payment_urgency = min(100, days_overdue * 3 + overdue_amount / 10000), times 10
PaymentUrgency10(d) == Min(1000, d.days_overdue * 30 + d.overdue_amount \div 1000)

\* order_urgency = min(100, dlo * 2.5), times 2
OrderUrgency2(d) == Min(200, Dlo(d) * 5)

\* visit_recency = min(100, dlv * 3)
VisitRecency(d) == Min(100, Dlv(d) * 3)

\* commit_score = min(100, expiring * 25)
CommitScore(d) == Min(100, d.expiring_count * 25)

\* relationship_risk = max(0, 100 - health)
RelationshipRisk(d) == Max(0, 100 - PlanHealth(d))

PriorityScore200_swapped(d) ==
    5 * PaymentUrgency10(d) + 30 * OrderUrgency2(d)
    + 30 * VisitRecency(d) + 30 * CommitScore(d) + 30 * RelationshipRisk(d)

\* priority_score = payment_urgency * 0.30 + order_urgency * 0.25
\*   + visit_recency * 0.15 + commit_score * 0.15 + relationship_risk * 0.15
PriorityScore200(d) ==
    6 * PaymentUrgency10(d) + 25 * OrderUrgency2(d)
    + 30 * VisitRecency(d) + 30 * CommitScore(d) + 30 * RelationshipRisk(d)

\* if priority_score >= 70 / elif priority_score >= 40 / else
Priority(d) ==
    IF PriorityScore200(d) >= 200 * 70 THEN "HIGH"
    ELSE IF PriorityScore200(d) >= 200 * 40 THEN "MEDIUM"
    ELSE "LOW"

SuggestedAction(d) ==
    IF Priority(d) = "HIGH"
    THEN IF PaymentUrgency10(d) >= 500 THEN "Collect overdue payment"
         ELSE IF d.expiring_count > 0 THEN "Close expiring commitment(s)"
         ELSE "Urgent attention needed"
    ELSE IF Priority(d) = "MEDIUM"
    THEN IF Dlo(d) > 30 THEN "No order in N days - check reorder" ELSE "Regular follow-up"
    ELSE "Relationship maintenance"

PlanReasons(d) ==
    (IF d.overdue_amount > 0 THEN <<"overdue">> ELSE <<>>)
    \o (IF Dlo(d) > 30 THEN <<"No order in N days">> ELSE <<>>)
    \o (IF d.expiring_count > 0 THEN <<"commitment(s) expiring soon">> ELSE <<>>)
    \o (IF PlanHealth(d) < 50 THEN <<"Health score critical">> ELSE <<>>)

\* the dict appended to scored for one dealer
ScoredEntry(d) ==
    [dealer_id |-> d.dealer_id,
     priority |-> Priority(d),
     priority_score |-> RoundHalfEven(PriorityScore200(d), 200),
     suggested_action |-> SuggestedAction(d),
     reasons |-> SubSeq(PlanReasons(d), 1, Min(3, Len(PlanReasons(d)))),
     overdue_amount |-> d.overdue_amount,
     days_since_last_order |-> Dlo(d),
     health_score |-> PlanHealth(d)]

\* WHERE d.sales_person_id = %s AND d.status = 'ACTIVE'
ActiveOf(sp) ==
    LET Mine(d) == d.sales_person_id = sp /\ d.status = "ACTIVE"
    IN SelectSeq(plan_dealers, Mine)

\* scored.sort(key=lambda x: x["priority_score"], reverse=True): position of
\* entry i after the stable descending sort
Rank(scored, i) ==
    1 + Cardinality({ j \in DOMAIN scored : scored[j].priority_score > scored[i].priority_score })
      + Cardinality({ j \in DOMAIN scored :
                        j < i /\ scored[j].priority_score = scored[i].priority_score })

SortedDesc(scored) ==
    [k \in DOMAIN scored |-> scored[CHOOSE i \in DOMAIN scored : Rank(scored, i) = k]]

\* scored[:max_dealers]: a negative bound counts from the end of the list
SliceTo(scored, m) ==
    IF m >= 0 THEN SubSeq(scored, 1, Min(m, Len(scored)))
    ELSE SubSeq(scored, 1, Max(0, Len(scored) + m))

\* the dict suggest_visit_plan returns
PlanResult(sp, max_dealers) ==
    LET dealers == ActiveOf(sp)
        scored == [i \in DOMAIN dealers |-> ScoredEntry(dealers[i])]
    IN [kind |-> "plan",
        sales_person_id |-> sp,
        total_active_dealers |-> Len(dealers),
        recommended_visits |-> SliceTo(SortedDesc(scored), max_dealers)]

\* suggest_visit_plan(params["sales_person_id"], int(params.get("max_dealers", 5)))
suggest_visit_plan(sp, max_dealers) ==
    /\ plan_args' = [sales_person_id |-> sp, max_dealers |-> max_dealers]
    /\ plan_result' = PlanResult(sp, max_dealers)
    /\ UNCHANGED plan_dealers
    /\ UNCHANGED <<commitments, orders, callVars, nonPlanVars>>

InitPlan ==
    /\ commitments = <<>>
    /\ orders = <<>>
    /\ CallsIdle
    /\ NonPlanIdle
    /\ plan_dealers \in PlanTables
    /\ plan_args = NoResult
    /\ plan_result = NoResult

NextPlan ==
    \E sp \in SalesPersons, m \in MaxDealersValues : suggest_visit_plan(sp, m)

SpecPlan == InitPlan /\ [][NextPlan]_vars

\* the entries of the plan returned last
Visits == plan_result.recommended_visits

\* the dealers row of a returned entry
RowOf(e) == CHOOSE d \in { plan_dealers[i] : i \in DOMAIN plan_dealers } : d.dealer_id = e.dealer_id

\* C16: for every returned dealer the priority score is 0.30*payment_urgency
\* + 0.25*order_urgency + 0.15*visit_recency_urgency + 0.15*commitment_urgency
\* + 0.15*relationship_risk, with payment_urgency = min(100, days_overdue*3 +
\* overdue_amount/10000), order_urgency = min(100, days_since_last_order*2.5),
\* visit_recency_urgency = min(100, days_since_last_visit*3) and
\* commitment_urgency = min(100, expiring_count*25); the bucket follows that
\* score and the returned priority_score is that score rounded to an integer.
\* For overdue_amount 20000, days_overdue 10, 5 days since order, 2 days
\* since visit, no expiring commitment and health 80 the score is 16.625
\* (returned as 17) and the bucket LOW.  Scores are held times 10000.
C16_PriorityFormula ==
    plan_result.kind = "plan" =>
        \A k \in DOMAIN Visits :
            LET e == Visits[k]
                d == RowOf(e)
                pay == Min(1000000, 30000 * d.days_overdue + d.overdue_amount)
                ord == Min(1000000, 25000 * e.days_since_last_order)
                vis == Min(1000000, 30000 * Dlv(d))
                com == Min(1000000, 250000 * d.expiring_count)
                rel == 10000 * Max(0, 100 - e.health_score)
                score == (30 * pay + 25 * ord + 15 * vis + 15 * com + 15 * rel) \div 100
            IN /\ 10000 * e.priority_score - score <= 5000
               /\ score - 10000 * e.priority_score <= 5000
               /\ e.priority = (IF score >= 700000 THEN "HIGH"
                                ELSE IF score >= 400000 THEN "MEDIUM" ELSE "LOW")
               /\ (/\ d.overdue_amount = 20000 /\ d.days_overdue = 10
                   /\ e.days_since_last_order = 5 /\ Dlv(d) = 2
                   /\ d.expiring_count = 0 /\ e.health_score = 80)
                  => /\ score = 166250
                     /\ e.priority = "LOW"
                     /\ e.priority_score = 17

\* the plan holds the dealer of the worked example
C16_Witness ==
    /\ plan_result.kind = "plan"
    /\ \E k \in DOMAIN Visits :
          /\ Visits[k].dealer_id = "k1"
          /\ Visits[k].priority_score = 17
          /\ Visits[k].priority = "LOW"
          /\ RowOf(Visits[k]).overdue_amount = 20000

\* position of a dealer in the order the query returned the dealers
InputIndex(id) == CHOOSE i \in DOMAIN plan_dealers : plan_dealers[i].dealer_id = id

\* C17: the plan holds ACTIVE dealers of the rep in non-increasing
\* priority_score order, dealers of equal priority_score in their input
\* order, no omitted dealer has a strictly higher priority_score than a
\* returned one, and for every integer max_dealers the list has at most
\* max(0, max_dealers) entries.
C17_SortedTruncated ==
    plan_result.kind = "plan" =>
        LET active == { d \in { plan_dealers[i] : i \in DOMAIN plan_dealers } :
                          d.sales_person_id = plan_args.sales_person_id /\ d.status = "ACTIVE" }
            returned == { Visits[k].dealer_id : k \in DOMAIN Visits }
        IN /\ returned \subseteq { d.dealer_id : d \in active }
           /\ \A i, j \in DOMAIN Visits :
                 i < j => /\ Visits[i].priority_score >= Visits[j].priority_score
                          /\ Visits[i].dealer_id /= Visits[j].dealer_id
                          /\ Visits[i].priority_score = Visits[j].priority_score
                                => InputIndex(Visits[i].dealer_id) < InputIndex(Visits[j].dealer_id)
           /\ \A d \in active : d.dealer_id \notin returned =>
                 \A k \in DOMAIN Visits :
                    ScoredEntry(d).priority_score <= Visits[k].priority_score
           /\ Len(Visits) <= Max(0, plan_args.max_dealers)

\* C18: in every returned recommendation the bucket agrees with the returned
\* priority_score: HIGH iff >= 70, MEDIUM iff 40 <= score < 70, LOW iff < 40.
C18_BucketAgreesWithScore ==
    plan_result.kind = "plan" =>
        \A k \in DOMAIN Visits :
            /\ (Visits[k].priority = "HIGH") <=> (Visits[k].priority_score >= 70)
            /\ (Visits[k].priority = "MEDIUM") <=>
                  (Visits[k].priority_score >= 40 /\ Visits[k].priority_score < 70)
            /\ (Visits[k].priority = "LOW") <=> (Visits[k].priority_score < 40)

\* C25: for every returned dealer each of the five signals lies in [0,100]
\* (payment and order urgency are held times 10 and times 2) and the returned
\* priority_score lies in [0,100], also when an invoice is paid beyond its
\* total_amount.
C25_SignalsInRange ==
    plan_result.kind = "plan" =>
        \A k \in DOMAIN Visits :
            LET d == RowOf(Visits[k])
            IN /\ PaymentUrgency10(d) \in 0 .. 1000
               /\ OrderUrgency2(d) \in 0 .. 200
               /\ VisitRecency(d) \in 0 .. 100
               /\ CommitScore(d) \in 0 .. 100
               /\ RelationshipRisk(d) \in 0 .. 100
               /\ Visits[k].priority_score \in 0 .. 100

\* neither the dealers row nor the snapshot tells when the dealer last
\* ordered or was last visited
NoHistory(d) ==
    /\ d.days_since_last_order = <<>> /\ d.last_order_date = <<>>
    /\ d.days_since_last_visit = <<>> /\ d.last_visit_date = <<>>

\* C26: a returned dealer without order and visit history has order_urgency
\* 100 and visit_recency_urgency 100 (its days_since_last_order is returned
\* as 120, never 0), so with no negative overdue amount its score is at
\* least 0.25*100 + 0.15*100 = 40 and it is never in bucket LOW.
C26_NoHistoryMaxUrgency ==
    plan_result.kind = "plan" =>
        \A k \in DOMAIN Visits :
            LET e == Visits[k]
                d == RowOf(e)
            IN NoHistory(d) =>
                 /\ OrderUrgency2(d) = 2 * 100
                 /\ VisitRecency(d) = 100
                 /\ e.days_since_last_order = 120
                 /\ d.overdue_amount >= 0 =>
                       /\ e.priority_score >= 40
                       /\ e.priority /= "LOW"

\* the plan holds a dealer without history
C26_Witness ==
    /\ plan_result.kind = "plan"
    /\ \E k \in DOMAIN Visits :
          /\ NoHistory(RowOf(Visits[k]))
          /\ RowOf(Visits[k]).overall_score = <<>>
          /\ Visits[k].days_since_last_order = 120
          /\ Visits[k].priority_score = 48

\* C27: for every returned dealer that has a snapshot the health used is the
\* snapshot's overall_score, for every score from 0 to 100, and
\* relationship_risk is max(0, 100 - that score); the default 50 is used
\* only for a dealer without a snapshot.
C27_RiskFromSnapshot ==
    plan_result.kind = "plan" =>
        \A k \in DOMAIN Visits :
            LET e == Visits[k]
                d == RowOf(e)
            IN IF d.overall_score = <<>>
               THEN e.health_score = 50 /\ RelationshipRisk(d) = 50
               ELSE /\ e.health_score = d.overall_score[1]
                    /\ RelationshipRisk(d) = Max(0, 100 - d.overall_score[1])

\* =========================================================== pipeline views
\* get_pending_commitments (rep view of one dealer) and
\* get_commitment_pipeline (manager view) over table commitments
UrgencyDays == 3

ViewDates == {Today - 1, Today, Today + UrgencyDays, Today + UrgencyDays + 1}

\* a commitment in each status, with the quantities that status goes with
ViewRow(st, expected_date) ==
    [dealer_id |-> "d1", product_id |-> "p1", quantity_promised |-> MaxQty,
     converted_quantity |-> IF st = "CONVERTED" THEN MaxQty
                            ELSE IF st = "PARTIAL" THEN 1 ELSE 0,
     status |-> st, expected_order_date |-> expected_date,
     converted_order_id |-> NoOrder]

ViewRows == { ViewRow(st, e) : st \in OpenStatuses \cup TerminalStatuses, e \in ViewDates }

\* CASE WHEN expected_order_date < CURRENT_DATE THEN 'OVERDUE'
\*      WHEN expected_order_date <= CURRENT_DATE + 3 days THEN 'DUE_SOON'
\*      ELSE 'UPCOMING'
PendingUrgency(c) ==
    IF c.expected_order_date < Today THEN "OVERDUE"
    ELSE IF c.expected_order_date <= Today + UrgencyDays THEN "DUE_SOON"
    ELSE "UPCOMING"

\* CASE WHEN expected_order_date < CURRENT_DATE AND status = 'PENDING' THEN 'OVERDUE'
\*      WHEN expected_order_date <= CURRENT_DATE + 3 days AND status = 'PENDING' THEN 'DUE_SOON'
\*      WHEN status = 'CONVERTED' THEN 'FULFILLED'
\*      ELSE 'UPCOMING'
PipelineLabel(c) ==
    IF c.expected_order_date < Today /\ c.status = "PENDING" THEN "OVERDUE"
    ELSE IF c.expected_order_date <= Today + UrgencyDays /\ c.status = "PENDING" THEN "DUE_SOON"
    ELSE IF c.status = "CONVERTED" THEN "FULFILLED"
    ELSE "UPCOMING"

\* WHERE c.dealer_id = %s AND c.status IN ('PENDING', 'PARTIAL') [AND c.product_id = %s]
PendingIds(dealer, product) ==
    { i \in CommitmentIds :
        /\ commitments[i].dealer_id = dealer
        /\ commitments[i].status \in OpenStatuses
        /\ product /= <<>> => commitments[i].product_id = product[1] }

PendingViewRow(i) ==
    [commitment_id |-> i,
     expected_order_date |-> commitments[i].expected_order_date,
     status |-> commitments[i].status,
     remaining_qty |-> commitments[i].quantity_promised - commitments[i].converted_quantity,
     urgency |-> PendingUrgency(commitments[i])]

\* get_pending_commitments(params["dealer_id"], params.get("product_id"))
get_pending_commitments(dealer, product) ==
    /\ \E s \in SortedFetches(PendingIds(dealer, product)) :
          pending_view' = [kind |-> "pending",
                           commitments |-> [k \in 1 .. Len(s) |-> PendingViewRow(s[k])],
                           total_pending |-> Len(s)]
    /\ UNCHANGED pipeline_view
    /\ UNCHANGED <<commitments, orders, callVars, nonViewVars>>

\* WHERE c.status = %s, or c.status IN ('PENDING', 'PARTIAL', 'CONVERTED')
\* without a status_filter; no sales_person_id is passed
PipelineIds(status_filter) ==
    { i \in CommitmentIds :
        IF status_filter /= <<>> THEN commitments[i].status = status_filter[1]
        ELSE commitments[i].status \in {"PENDING", "PARTIAL", "CONVERTED"} }

PipelineViewRow(i) ==
    [commitment_id |-> i,
     expected_order_date |-> commitments[i].expected_order_date,
     status |-> commitments[i].status,
     urgency_label |-> PipelineLabel(commitments[i])]

\* sum(1 for r in pipeline if r["status"] == st)
CountStatus(s, st) ==
    Cardinality({ k \in 1 .. Len(s) : PipelineViewRow(s[k]).status = st })

\* sum(1 for r in pipeline if r.get("urgency_label") == label)
CountLabel(s, label) ==
    Cardinality({ k \in 1 .. Len(s) : PipelineViewRow(s[k]).urgency_label = label })

\* get_commitment_pipeline(params.get("sales_person_id"), params.get("status_filter"))
get_commitment_pipeline(status_filter) ==
    /\ \E s \in SortedFetches(PipelineIds(status_filter)) :
          pipeline_view' =
             [kind |-> "pipeline",
              commitments |-> [k \in 1 .. Len(s) |-> PipelineViewRow(s[k])],
              summary |-> [total |-> Len(s),
                           pending |-> CountStatus(s, "PENDING"),
                           due_soon |-> CountLabel(s, "DUE_SOON"),
                           overdue |-> CountLabel(s, "OVERDUE")]]
    /\ UNCHANGED pending_view
    /\ UNCHANGED <<commitments, orders, callVars, nonViewVars>>

InitViews ==
    /\ commitments \in UNION { [1 .. n -> ViewRows] : n \in 0 .. MaxCommitments }
    /\ orders = <<>>
    /\ CallsIdle
    /\ NonViewIdle
    /\ pending_view = NoResult
    /\ pipeline_view = NoResult

NextViews ==
    \/ \E d \in ActiveDealers, p \in {<<>>} \cup { <<x>> : x \in Products } :
          get_pending_commitments(d, p)
    \/ \E f \in {<<>>, <<"PARTIAL">>} : get_commitment_pipeline(f)

SpecViews == InitViews /\ [][NextViews]_vars

\* C19: a commitment shown by both views on the same day carries the same
\* label in both, and the label follows the rule OVERDUE if expected date <
\* today and status PENDING, DUE_SOON if expected date <= today+3 and status
\* PENDING, FULFILLED if status CONVERTED, else UPCOMING; so a PARTIAL
\* commitment is never OVERDUE or DUE_SOON.
C19_SameUrgencyLabel ==
    (pending_view.kind = "pending" /\ pipeline_view.kind = "pipeline") =>
        \A i \in DOMAIN pending_view.commitments, j \in DOMAIN pipeline_view.commitments :
            LET a == pending_view.commitments[i]
                b == pipeline_view.commitments[j]
                rule == IF a.expected_order_date < Today /\ a.status = "PENDING"
                           THEN "OVERDUE"
                        ELSE IF a.expected_order_date <= Today + 3 /\ a.status = "PENDING"
                           THEN "DUE_SOON"
                        ELSE IF a.status = "CONVERTED" THEN "FULFILLED"
                        ELSE "UPCOMING"
            IN a.commitment_id = b.commitment_id =>
                  /\ a.urgency = b.urgency_label
                  /\ a.urgency = rule

\* ======================================================== parameter dicts
\* lambda_handler builds params from the event and the write functions read
\* it key by key: params[k] raises KeyError for an absent key, which
\* lambda_handler turns into the 'Missing required parameter' error.  A dict
\* is a function on the keys present; numeric parameters are passed beside
\* it, <<>> when absent.
ParamValues ==
    [dealer_id |-> {"d1"}, product_id |-> {"p1", "px"},
     sales_person_id |-> {"sp1"}, visit_id |-> {"v1"}]

\* the dicts with any subset of the given keys
Dicts(keys) ==
    UNION { { f \in [K -> {"d1", "p1", "px", "sp1", "v1"}] :
                \A k \in K : f[k] \in ParamValues[k] } : K \in SUBSET keys }

Has(params, k) == k \in DOMAIN params

OptionalInts == {<<>>, <<1>>}

\* the bedrock_response body; selects counts the SELECT statements the call
\* executed before it returned
Reply(fn, present, kind, error, selects) ==
    [function |-> fn, present |-> present, kind |-> kind,
     error |-> error, selects |-> selects]

MissingParameter == "Missing required parameter"

\* nothing was written, or the transaction was rolled back
NoWrite == UNCHANGED <<commitments, orders, inv_fresh>>

\* function == "create_order": create_order(params)
call_create_order(params, quantity, commitment_id) ==
    /\ IF ~Has(params, "product_id")
       THEN /\ req_result' = Reply("create_order", DOMAIN params, "error", MissingParameter, 0)
            /\ NoWrite
       ELSE IF params["product_id"] \notin Products
       THEN /\ req_result' = Reply("create_order", DOMAIN params, "error", "Product not found", 1)
            /\ NoWrite
       ELSE IF ~Has(params, "dealer_id") \/ ~Has(params, "sales_person_id")
       THEN /\ req_result' = Reply("create_order", DOMAIN params, "error", MissingParameter, 2)
            /\ NoWrite
       ELSE /\ Len(orders) < MaxOrders
            /\ commitment_id /= NoOrder => ~LockedByOther(0, commitment_id)
            /\ orders' = Append(orders,
                  NewOrder(params["dealer_id"], params["product_id"],
                           IF quantity = <<>> THEN 0 ELSE quantity[1], commitment_id))
            /\ commitments' = IF commitment_id /= NoOrder
                              THEN LinkOrder(commitments, commitment_id, Len(orders) + 1)
                              ELSE commitments
            /\ inv_fresh' = FALSE
            /\ req_result' = Reply("create_order", DOMAIN params, "success", "", 2)
    /\ UNCHANGED <<callVars, nonReqVars>>

\* function == "create_commitment": create_commitment(params); product_id is
\* given as an id, not as a product code
call_create_commitment(params, quantity_promised, expected_order_date) ==
    /\ IF ~Has(params, "visit_id")
       THEN /\ req_result' = Reply("create_commitment", DOMAIN params, "error", MissingParameter, 0)
            /\ NoWrite
       ELSE IF ~Has(params, "dealer_id")
       THEN /\ req_result' = Reply("create_commitment", DOMAIN params, "error", MissingParameter, 2)
            /\ NoWrite
       ELSE /\ Len(commitments) < MaxRaceCommitments
            /\ commitments' = Append(commitments,
                  NewCommitment(params["dealer_id"],
                                IF Has(params, "product_id") THEN params["product_id"] ELSE "",
                                IF quantity_promised = <<>> THEN 0 ELSE quantity_promised[1],
                                IF expected_order_date = <<>> THEN Today + 7
                                ELSE expected_order_date[1]))
            /\ req_result' = Reply("create_commitment", DOMAIN params, "success", "", 2)
            /\ UNCHANGED <<orders, inv_fresh>>
    /\ UNCHANGED <<callVars, nonReqVars>>

\* function == "consume_commitment": consume_commitment(params["dealer_id"],
\* params["product_id"], int(params["order_quantity"]))
call_consume_commitment(t, params, order_quantity) ==
    IF ~Has(params, "dealer_id") \/ ~Has(params, "product_id") \/ order_quantity = <<>>
    THEN /\ req_result' =
               Reply("consume_commitment",
                     IF order_quantity = <<>> THEN DOMAIN params
                     ELSE DOMAIN params \cup {"order_quantity"},
                     "error", MissingParameter, 0)
         /\ NoWrite
         /\ UNCHANGED <<callVars, nonReqVars>>
    ELSE consume_begin(t, params["dealer_id"], params["product_id"], order_quantity[1])

InitRequests == Init

\* the write functions called with any parameter dict
NextRequests ==
    \/ \E params \in Dicts({"product_id", "dealer_id", "sales_person_id"}),
          q \in OptionalInts, cid \in 0 .. MaxRaceCommitments :
          call_create_order(params, q, cid)
    \/ \E params \in Dicts({"visit_id", "dealer_id", "product_id"}),
          q \in OptionalInts, e \in {<<>>, <<Today>>} :
          call_create_commitment(params, q, e)
    \/ \E t \in SeqCalls, params \in Dicts({"dealer_id", "product_id"}), q \in OptionalInts :
          call_consume_commitment(t, params, q)
    \/ \E t \in SeqCalls : walk_continue(t)
    \/ \E t \in SeqCalls : walk_consume(t)
    \/ \E t \in SeqCalls : consume_commit(t)
    \/ \E t \in SeqCalls : consume_fail(t)
    \/ \E t \in SeqCalls : consume_return(t)

SpecRequests == InitRequests /\ [][NextRequests]_vars

\* the call lacks a parameter that the function schema marks as required and
\* the handler reads with params[k]
LacksRequired(r) ==
    \/ r.function = "create_order"
          /\ ("dealer_id" \notin r.present \/ "sales_person_id" \notin r.present)
    \/ r.function = "create_commitment" /\ "dealer_id" \notin r.present
    \/ r.function = "consume_commitment" /\ "order_quantity" \notin r.present

\* C20: a call that lacks a required parameter (create_order without
\* dealer_id or sales_person_id, create_commitment without dealer_id,
\* consume_commitment without order_quantity) is rejected with the 'Missing
\* required parameter' error before any data access: it executes no SELECT
\* and creates or changes no row.
C20_RejectedBeforeAccess ==
    [][(req_result' /= req_result /\ LacksRequired(req_result')) =>
          /\ req_result'.kind = "error"
          /\ req_result'.error = MissingParameter
          /\ req_result'.selects = 0
          /\ commitments' = commitments
          /\ orders' = orders]_vars

\* C21: a call that names a product which is not in table products gets an
\* error result, never a success result, and writes nothing: a finished
\* consume_commitment for such a product has returned an error, a
\* create_order for it has returned 'Product not found', and no order names
\* it.
C21_UnknownIdRejected ==
    /\ \A t \in SeqCalls :
          (pc[t] = "done" /\ args[t].product_id \notin Products) =>
              result[t].kind = "error"
    /\ (req_result.kind = "error" /\ req_result.error = "Product not found") =>
          req_result.function = "create_order"
    /\ \A i \in 1 .. Len(orders) : orders[i].product_id \in Products

\* ========================================================== stock reservation
\* create_order followed by check_inventory
InitReserve ==
    /\ commitments = <<>>
    /\ orders \in {<<>>} \cup { <<SeedOrder(st)>> : st \in OrderStatuses }
    /\ CallsIdle
    /\ inventory \in SUBSET InventoryRows
    /\ incoming_stock = {}
    /\ inv_result = NoResult
    /\ inv_fresh = FALSE
    /\ NonInvIdle

NextReserve ==
    \/ \E p \in StockProducts : check_inventory(p, 1)
    \/ \E d \in ActiveDealers, p \in Products, q \in 1 .. MaxQty :
          create_order(d, p, q, NoOrder)
    \/ \E params \in Dicts({"product_id", "dealer_id", "sales_person_id"}),
          q \in OptionalInts :
          call_create_order(params, q, NoOrder)

SpecReserve == InitReserve /\ [][NextReserve]_vars

\* atp = on_hand - reserved - pending, as check_inventory computes it now
AtpOf(product) == InventoryResult(product, 0).available_to_promise

\* C29: a create_order that succeeds stores one CONFIRMED order and lowers
\* the available_to_promise of its product by exactly its quantity (that of
\* any other product stays); a create_order that returns an error stores no
\* order and leaves every available_to_promise as it was; check_inventory
\* returns that available_to_promise.
C29_OrderReservesStock ==
    [][/\ orders' /= orders =>
            LET o == orders'[Len(orders')]
            IN /\ Len(orders') = Len(orders) + 1
               /\ o.status = "CONFIRMED"
               /\ \A p \in StockProducts :
                     AtpOf(p)' = AtpOf(p) - (IF p = o.product_id
                                             THEN o.quantity_ordered ELSE 0)
       /\ (req_result' /= req_result /\ req_result'.kind = "error") =>
            /\ orders' = orders
            /\ \A p \in StockProducts : AtpOf(p)' = AtpOf(p)
       /\ CheckStep =>
            inv_result'.available_to_promise = AtpOf(inv_result'.product_id)]_vars

\* check_inventory ran after a create_order of the largest quantity and
\* counts it as pending
C29_Witness ==
    /\ inv_fresh
    /\ inv_result.kind = "inventory"
    /\ inv_result.product_id = "p1"
    /\ \E i \in 1 .. Len(orders) :
          /\ orders[i].status = "CONFIRMED"
          /\ orders[i].quantity_ordered = MaxQty
          /\ inv_result.pending_orders >= MaxQty
    /\ inv_result.available_to_promise = inv_result.on_hand - inv_result.reserved
                                           - inv_result.pending_orders

\* ============================================================ repeated call
\* the same consume_commitment request made twice, one call after the other:
\* invocation 1 is the first call, invocation 2 the second, started with the
\* first call's arguments once the first has returned its result
Finished(t) == pc[t] \in {"done", "failed"}

first_call(dealer, product, order_quantity) ==
    /\ pc[2] = "idle"
    /\ consume_begin(1, dealer, product, order_quantity)

second_call ==
    /\ Finished(1)
    /\ consume_begin(2, args[1].dealer_id, args[1].product_id, args[1].order_quantity)

\* expected_order_date of the commitments made before the calls: inside and
\* beyond the forward window
RepeatDates == {Today, forward_limit + 1}

NextRepeat ==
    \/ \E d \in ActiveDealers, p \in Products, q \in PromisedValues, e \in RepeatDates :
          /\ pc[1] = "idle" /\ pc[2] = "idle"
          /\ create_commitment(d, p, q, e)
    \/ \E d \in ActiveDealers, p \in Products, q \in OrderQtyValues : first_call(d, p, q)
    \/ second_call
    \/ \E t \in Calls : walk_continue(t)
    \/ \E t \in Calls : walk_consume(t)
    \/ \E t \in Calls : consume_commit(t)
    \/ \E t \in Calls : consume_fail(t)
    \/ Finished(2) /\ consume_return(1)
    \/ pc[1] = "idle" /\ consume_return(2)

SpecRepeat == Init /\ [][NextRepeat]_vars

\* total remaining quantity of the fetched rows a call can consume from:
\* remaining_qty > 0 and expected_order_date within the forward window
RECURSIVE InWindowRemaining(_)
InWindowRemaining(rs) ==
    IF rs = <<>> THEN 0
    ELSE (IF Head(rs).remaining_qty > 0 /\ Head(rs).expected_order_date <= Today + ForwardDays
          THEN Head(rs).remaining_qty ELSE 0)
         + InWindowRemaining(Tail(rs))

\* what the table's converted_quantity grew by since the rows were fetched
RECURSIVE ConvertedSince(_)
ConvertedSince(rs) ==
    IF rs = <<>> THEN 0
    ELSE commitments[Head(rs).commitment_id].converted_quantity
         - Head(rs).converted_quantity + ConvertedSince(Tail(rs))

\* C23: two sequential consume_commitment calls with the same dealer,
\* product and order_quantity q are both processed: with R the total
\* in-window remaining quantity before the first call, the first consumes
\* min(q, R), the second consumes again from what remains, and the quantity
\* converted by both together is min(2q, R).
C23_RepeatConsumesAgain ==
    (pc[1] = "done" /\ pc[2] = "done") =>
        LET q == args[1].order_quantity
            R == InWindowRemaining(rows[1])
        IN /\ args[2] = args[1]
           /\ result[1].kind = "success"
           /\ result[2].kind = "success"
           /\ result[1].consumed_from_commitments = Min(q, R)
           /\ result[1].consumed_from_commitments
                 + result[2].consumed_from_commitments = Min(2 * q, R)
           /\ ConvertedSince(rows[1]) = Min(2 * q, R)

\* the second of two identical calls consumed again, from a commitment the
\* first call had left PARTIAL
C23_Witness ==
    /\ pc[1] = "done" /\ pc[2] = "done"
    /\ args[1].order_quantity = 1
    /\ result[1].consumed_from_commitments = 1
    /\ result[2].consumed_from_commitments = 1
    /\ ConvertedSince(rows[1]) = 2
    /\ \E k \in 1 .. Len(rows[2]) : rows[2][k].converted_quantity = 1

\* ============================================================ manager alert
\* send_manager_alert: the alerts row is inserted and committed on the
\* function's own connection; the Telegram notification follows, and
\* mark_alert_sent updates the row on a second connection.
MaxAlerts == 2

\* params.get("dealer_id", ""), params.get("message", "")
AlertParams == [dealer_id : {"", "d1", "dx"}, message : {"", "text"}]

Incomplete(params) == params.dealer_id = "" \/ params.message = ""

\* what can happen between the commit and the return: no manager chat id,
\* an exception in the lookup or the send, send_message returning False,
\* send_message returning True
DeliveryFailures == {"no_chat", "exception", "send_false"}

NewAlert_sent(params) ==
    [entity_id |-> params.dealer_id, status |-> "ACTIVE", notification_sent |-> TRUE]

\* INSERT INTO alerts (... status, ... notification_sent ...) VALUES
\* (... 'ACTIVE', ... FALSE ...)
NewAlert(params) ==
    [entity_id |-> params.dealer_id, status |-> "ACTIVE", notification_sent |-> FALSE]

\* if not dealer_id or not message: return {"error": ...}
alert_reject(params) ==
    /\ alert_pc = "idle"
    /\ Incomplete(params)
    /\ alert_result' = [kind |-> "error", error |-> "dealer_id and message are required"]
    /\ UNCHANGED <<alerts, manager_chat_id, alert_pc, alert_call, delivered>>
    /\ UNCHANGED <<commitments, orders, callVars, baseVars, botVars, otxVars>>

\* the two lookups, the INSERT and conn.commit()
alert_insert(params) ==
    /\ alert_pc = "idle"
    /\ ~Incomplete(params)
    /\ Len(alerts) < MaxAlerts
    /\ alerts' = Append(alerts, NewAlert(params))
    /\ alert_call' = [alert_id |-> Len(alerts) + 1, outcome |-> "none", tg_sent |-> FALSE]
    /\ alert_result' = NoResult
    /\ alert_pc' = "committed"
    /\ UNCHANGED <<manager_chat_id, delivered>>
    /\ UNCHANGED <<commitments, orders, callVars, baseVars, botVars, otxVars>>

\* a statement before the commit raises: conn.rollback() and
\* return {"error": str(e)}
alert_db_fail(params) ==
    /\ alert_pc = "idle"
    /\ ~Incomplete(params)
    /\ alert_result' = [kind |-> "error", error |-> "exception"]
    /\ UNCHANGED <<alerts, manager_chat_id, alert_pc, alert_call, delivered>>
    /\ UNCHANGED <<commitments, orders, callVars, baseVars, botVars, otxVars>>

\* get_manager_telegram_chat_id() and send_message(): the outcome is that of
\* the database lookup and of the Telegram API
alert_deliver(outcome) ==
    /\ alert_pc = "committed"
    /\ outcome = "no_chat" <=> manager_chat_id = <<>>
    /\ alert_call' = [alert_call EXCEPT !.outcome = outcome]
    /\ delivered' = IF outcome = "sent" THEN delivered \cup {alert_call.alert_id}
                     ELSE delivered
    /\ alert_pc' = IF outcome = "sent" THEN "marking" ELSE "closing"
    /\ UNCHANGED <<alerts, manager_chat_id, alert_result>>
    /\ UNCHANGED <<commitments, orders, callVars, baseVars, botVars, otxVars>>

\* a lookup that raises: the inner except logs it
alert_lookup_raises ==
    /\ alert_pc = "committed"
    /\ alert_call' = [alert_call EXCEPT !.outcome = "exception"]
    /\ alert_pc' = "closing"
    /\ UNCHANGED <<alerts, manager_chat_id, alert_result, delivered>>
    /\ UNCHANGED <<commitments, orders, callVars, baseVars, botVars, otxVars>>

\* if ok: mark_alert_sent(alert_id); tg_sent = True.  marked = FALSE is the
\* UPDATE raising: rollback, and the inner except leaves tg_sent False
alert_mark(marked) ==
    /\ alert_pc = "marking"
    /\ alerts' = IF marked
                  THEN [alerts EXCEPT ![alert_call.alert_id].notification_sent = TRUE]
                  ELSE alerts
    /\ alert_call' = [alert_call EXCEPT !.tg_sent = marked]
    /\ alert_pc' = "closing"
    /\ UNCHANGED <<manager_chat_id, alert_result, delivered>>
    /\ UNCHANGED <<commitments, orders, callVars, baseVars, botVars, otxVars>>

\* conn.close() and the success dict
alert_return ==
    /\ alert_pc = "closing"
    /\ alert_result' = [kind |-> "success", alert_id |-> alert_call.alert_id,
                         telegram_sent |-> alert_call.tg_sent]
    /\ alert_pc' = "idle"
    /\ UNCHANGED <<alerts, manager_chat_id, alert_call, delivered>>
    /\ UNCHANGED <<commitments, orders, callVars, baseVars, botVars, otxVars>>

InitAlert ==
    /\ commitments = <<>>
    /\ orders = <<>>
    /\ CallsIdle
    /\ BaseIdle
    /\ BotIdle
    /\ OtxIdle
    /\ alerts = <<>>
    /\ manager_chat_id \in {<<>>, <<"m1">>}
    /\ alert_pc = "idle"
    /\ alert_call = NoResult
    /\ alert_result = NoResult
    /\ delivered = {}

NextAlert ==
    \/ \E params \in AlertParams : alert_reject(params)
    \/ \E params \in AlertParams : alert_insert(params)
    \/ \E params \in AlertParams : alert_db_fail(params)
    \/ \E outcome \in {"no_chat", "send_false", "exception", "sent"} :
          alert_deliver(outcome)
    \/ alert_lookup_raises
    \/ \E marked \in BOOLEAN : alert_mark(marked)
    \/ alert_return

SpecAlert == InitAlert /\ [][NextAlert]_vars

\* the call whose result is alert_result has returned success
AlertReturned == alert_pc = "idle" /\ alert_result.kind = "success"

\* C22: the alert row is committed before delivery is attempted and exists
\* whatever the outcome: a call whose delivery failed (no manager chat id,
\* send_message returned False, an exception) returns success with
\* telegram_sent = FALSE and its row has notification_sent = FALSE; a row has
\* notification_sent = TRUE only after its message was sent successfully,
\* and telegram_sent = TRUE only with such a row.
C22_AlertBeforeDelivery ==
    /\ [][/\ alert_call' /= alert_call /\ alert_pc = "committed"
                => /\ alert_call.alert_id \in DOMAIN alerts
                   /\ alerts' = alerts
          /\ \A id \in DOMAIN alerts :
                (~alerts[id].notification_sent /\ alerts'[id].notification_sent)
                   => id \in delivered]_vars
    /\ [](\A id \in DOMAIN alerts : alerts[id].notification_sent => id \in delivered)
    /\ [](AlertReturned =>
             /\ alert_result.alert_id \in DOMAIN alerts
             /\ alert_result.telegram_sent => alerts[alert_result.alert_id].notification_sent
             /\ alert_call.outcome \in DeliveryFailures =>
                   /\ ~alert_result.telegram_sent
                   /\ ~alerts[alert_result.alert_id].notification_sent)

\* the manager has a chat, send_message returned False, and the call
\* returned success for an alert that stays unsent
C22_Witness ==
    /\ AlertReturned
    /\ manager_chat_id /= <<>>
    /\ alert_call.outcome = "send_false"
    /\ ~alert_result.telegram_sent
    /\ ~alerts[alert_result.alert_id].notification_sent
    /\ \E id \in DOMAIN alerts : alerts[id].notification_sent

\* ============================================================ order numbers
\* create_order as a transaction of its own connection, with create_order
\* invocations running concurrently.  order_number is UNIQUE: an INSERT of a
\* number that a committed row has raises a unique violation, and an INSERT
\* of a number that an uncommitted row of another transaction has waits for
\* that transaction to end.  The year prefix of the number is left out, so
\* equal counts give equal numbers.
MaxNumberedOrders == 3

\* an uncommitted orders row of another transaction carries the number
HeldByOther(t, n) ==
    \E u \in Calls \ {t} : otx_pc[u] = "inserted" /\ otx_number[u] = n

NumberTaken_never(n) == FALSE

\* a committed orders row carries the number
NumberTaken(n) == \E i \in 1 .. Len(orders) : orders[i].order_number = n

\* the product lookup and SELECT COUNT(*) AS c FROM orders, which counts the
\* committed rows: order_num = c + 1
order_begin(t) ==
    /\ otx_pc[t] = "idle"
    /\ Len(orders) < MaxNumberedOrders
    /\ otx_number' = [otx_number EXCEPT ![t] = Len(orders) + 1]
    /\ otx_result' = [otx_result EXCEPT ![t] = NoResult]
    /\ otx_pc' = [otx_pc EXCEPT ![t] = "counted"]
    /\ UNCHANGED <<commitments, orders, callVars, baseVars, alertVars, botVars>>

\* INSERT INTO orders and INSERT INTO order_items, the number being free
order_insert(t) ==
    /\ otx_pc[t] = "counted"
    /\ ~HeldByOther(t, otx_number[t])
    /\ ~NumberTaken(otx_number[t])
    /\ otx_pc' = [otx_pc EXCEPT ![t] = "inserted"]
    /\ UNCHANGED <<otx_number, otx_result>>
    /\ UNCHANGED <<commitments, orders, callVars, baseVars, alertVars, botVars>>

\* INSERT INTO orders raising the unique violation: except -> rollback,
\* raise, and lambda_handler returns {"error": str(e)}
order_duplicate(t) ==
    /\ otx_pc[t] = "counted"
    /\ ~HeldByOther(t, otx_number[t])
    /\ NumberTaken(otx_number[t])
    /\ otx_result' = [otx_result EXCEPT ![t] = [kind |-> "error", error |-> "duplicate key"]]
    /\ otx_pc' = [otx_pc EXCEPT ![t] = "done"]
    /\ UNCHANGED otx_number
    /\ UNCHANGED <<commitments, orders, callVars, baseVars, alertVars, botVars>>

\* the two UPDATEs, conn.commit() and the success dict
order_commit(t) ==
    /\ otx_pc[t] = "inserted"
    /\ orders' = Append(orders,
          [NewOrder("d1", "p1", 1, NoOrder) EXCEPT !.order_number = otx_number[t]])
    /\ otx_result' = [otx_result EXCEPT ![t] =
                         [kind |-> "success", order_number |-> otx_number[t]]]
    /\ otx_pc' = [otx_pc EXCEPT ![t] = "done"]
    /\ UNCHANGED otx_number
    /\ UNCHANGED <<commitments, callVars, baseVars, alertVars, botVars>>

\* any other statement of the transaction raises: rollback, error result
order_fail(t) ==
    /\ otx_pc[t] \in {"counted", "inserted"}
    /\ otx_result' = [otx_result EXCEPT ![t] = [kind |-> "error", error |-> "exception"]]
    /\ otx_pc' = [otx_pc EXCEPT ![t] = "done"]
    /\ UNCHANGED otx_number
    /\ UNCHANGED <<commitments, orders, callVars, baseVars, alertVars, botVars>>

\* bedrock_response(...) is returned; the invocation slot is free again
order_return(t) ==
    /\ otx_pc[t] = "done"
    /\ otx_pc' = [otx_pc EXCEPT ![t] = "idle"]
    /\ otx_number' = [otx_number EXCEPT ![t] = 0]
    /\ otx_result' = [otx_result EXCEPT ![t] = NoResult]
    /\ UNCHANGED <<commitments, orders, callVars, baseVars, alertVars, botVars>>

InitOrderNumbers ==
    /\ commitments = <<>>
    /\ orders \in {<<>>} \cup { <<SeedOrder(st)>> : st \in OrderStatuses }
    /\ CallsIdle
    /\ BaseIdle
    /\ AlertIdle
    /\ BotIdle
    /\ OtxIdle

NextOrderNumbers ==
    \/ \E t \in Calls : order_begin(t)
    \/ \E t \in Calls : order_insert(t)
    \/ \E t \in Calls : order_duplicate(t)
    \/ \E t \in Calls : order_commit(t)
    \/ \E t \in Calls : order_fail(t)
    \/ \E t \in Calls : order_return(t)

SpecOrderNumbers == InitOrderNumbers /\ [][NextOrderNumbers]_vars

\* C30: no two committed orders share an order_number, also with concurrent
\* create_order calls that read the same count; a call that ends has a
\* definite result, success with exactly one row of its number or an error;
\* a call whose number a committed order already has ends with an error, and
\* a step that ends in an error stores no order row.
C30_OrderNumbersUnique ==
    /\ [](\A i, j \in 1 .. Len(orders) :
             i /= j => orders[i].order_number /= orders[j].order_number)
    /\ [](\A t \in Calls :
             otx_pc[t] = "done" =>
                \/ /\ otx_result[t].kind = "success"
                   /\ Cardinality({ i \in 1 .. Len(orders) :
                          orders[i].order_number = otx_result[t].order_number }) = 1
                \/ otx_result[t].kind = "error")
    /\ [][\A t \in Calls :
            /\ (otx_pc[t] = "counted" /\ otx_pc'[t] = "done" /\ NumberTaken(otx_number[t]))
                  => otx_result'[t].kind = "error"
            /\ (otx_pc'[t] = "done" /\ otx_pc[t] /= "done" /\ otx_result'[t].kind = "error")
                  => orders' = orders]_vars

\* two calls computed the same number: one committed its order, the other
\* ended with the duplicate-key error and the table has the number once
C30_Witness ==
    /\ otx_pc[1] = "done" /\ otx_pc[2] = "done"
    /\ otx_number[1] = otx_number[2]
    /\ otx_result[1].kind = "success"
    /\ otx_result[2].kind = "error"
    /\ otx_result[2].error = "duplicate key"
    /\ Cardinality({ i \in 1 .. Len(orders) : orders[i].order_number = otx_number[1] }) = 1

\* ============================================================= Telegram bot
\* _handle_telegram_bedrock for the updates of one chat.  The asynchronous
\* event that carries an update can be delivered more than once (Lambda
\* retries a failed invocation, and delivery is at least once); each
\* delivery is an invocation of its own.  /start goes through
\* _handle_telegram_fast, which saves the session with an empty context.
MaxDeliveries == 2

Updates == {1, 2}

\* ctx.get("last_update_id") == update_id, on the session get_session returned
IsDuplicate(u) == session /= <<>> /\ session[1].last_update_id = <<u>>

\* the session row after save_session(..., context=ctx): the UPDATE (or the
\* INSERT) writes the whole context column
SavedSession(ctx) == << [last_update_id |-> ctx] >>

\* the dedup check finds the update in the session: return 200
bot_skip(t, u) ==
    /\ bot_pc[t] = "idle"
    /\ IsDuplicate(u)
    /\ bot_update' = [bot_update EXCEPT ![t] = u]
    /\ bot_pc' = [bot_pc EXCEPT ![t] = "done"]
    /\ UNCHANGED <<session, registered, invocations, replies>>
    /\ UNCHANGED <<commitments, orders, callVars, baseVars, alertVars, otxVars>>

\* parse, get_session, the dedup check and the lookup of the sales person
bot_receive(t, u) ==
    /\ bot_pc[t] = "idle"
    /\ ~IsDuplicate(u)
    /\ invocations[u] < MaxDeliveries
    /\ bot_update' = [bot_update EXCEPT ![t] = u]
    /\ bot_pc' = [bot_pc EXCEPT ![t] = IF registered THEN "invoking" ELSE "done"]
    /\ UNCHANGED <<session, registered, invocations, replies>>
    /\ UNCHANGED <<commitments, orders, callVars, baseVars, alertVars, otxVars>>

\* send_typing_action and _invoke_agent; a failed invocation gives the
\* apology text as reply_text
bot_invoke(t) ==
    /\ bot_pc[t] = "invoking"
    /\ invocations' = [invocations EXCEPT ![bot_update[t]] = @ + 1]
    /\ bot_pc' = [bot_pc EXCEPT ![t] = "replying"]
    /\ UNCHANGED <<session, registered, bot_update, replies>>
    /\ UNCHANGED <<commitments, orders, callVars, baseVars, alertVars, otxVars>>

\* send_message(chat_id, reply_text): ok is what the Telegram API answers
bot_reply(t, ok) ==
    /\ bot_pc[t] = "replying"
    /\ replies' = [replies EXCEPT ![bot_update[t]] = IF ok THEN @ + 1 ELSE @]
    /\ bot_pc' = [bot_pc EXCEPT ![t] = "saving"]
    /\ UNCHANGED <<session, registered, bot_update, invocations>>
    /\ UNCHANGED <<commitments, orders, callVars, baseVars, alertVars, otxVars>>

\* save_session(..., context={"last_update_id": update_id}); saved = FALSE is
\* the call raising, which ends the invocation with an error
bot_save(t, saved) ==
    /\ bot_pc[t] = "saving"
    /\ session' = IF saved THEN SavedSession(<<bot_update[t]>>) ELSE session
    /\ bot_pc' = [bot_pc EXCEPT ![t] = "done"]
    /\ UNCHANGED <<registered, bot_update, invocations, replies>>
    /\ UNCHANGED <<commitments, orders, callVars, baseVars, alertVars, otxVars>>

\* the invocation has ended
bot_return(t) ==
    /\ bot_pc[t] = "done"
    /\ bot_pc' = [bot_pc EXCEPT ![t] = "idle"]
    /\ bot_update' = [bot_update EXCEPT ![t] = 0]
    /\ UNCHANGED <<session, registered, invocations, replies>>
    /\ UNCHANGED <<commitments, orders, callVars, baseVars, alertVars, otxVars>>

\* /start: the welcome message and _save_telegram_session(..., last_message=
\* "/start"), which passes no context
bot_start ==
    /\ session' = SavedSession(<<>>)
    /\ UNCHANGED <<registered, bot_pc, bot_update, invocations, replies>>
    /\ UNCHANGED <<commitments, orders, callVars, baseVars, alertVars, otxVars>>

InitBot ==
    /\ commitments = <<>>
    /\ orders = <<>>
    /\ CallsIdle
    /\ BaseIdle
    /\ AlertIdle
    /\ OtxIdle
    /\ session = <<>>
    /\ registered \in BOOLEAN
    /\ bot_pc = [t \in Calls |-> "idle"]
    /\ bot_update = [t \in Calls |-> 0]
    /\ invocations = [u \in Updates |-> 0]
    /\ replies = [u \in Updates |-> 0]

NextBot ==
    \/ \E t \in Calls, u \in Updates : bot_skip(t, u)
    \/ \E t \in Calls, u \in Updates : bot_receive(t, u)
    \/ \E t \in Calls : bot_invoke(t)
    \/ \E t \in Calls, ok \in BOOLEAN : bot_reply(t, ok)
    \/ \E t \in Calls, saved \in BOOLEAN : bot_save(t, saved)
    \/ \E t \in Calls : bot_return(t)
    \/ bot_start

SpecBot == InitBot /\ [][NextBot]_vars

\* C28: each update_id leads to at most one agent invocation and at most one
\* reply message to its chat, over all deliveries of the update.
C28_AtMostOnce ==
    \A u \in Updates : invocations[u] <= 1 /\ replies[u] <= 1
====
